---- MODULE Spec2Model ----
(***************************************************************************)
(* Verification model of omarchy-theme-gen (Generator/src).                *)
(*                                                                         *)
(*   color.rs      Color::new / hex / hex_no_hash, ColorPalette::merge     *)
(*   extractor.rs  extract_colors (priority loop, primary source, defaults)*)
(*   linker.rs     SymlinkManager::create_symlink / backup_existing        *)
(*                                                                         *)
(* Four specifications share the module: SpecColor (string -> Color),      *)
(* SpecMerge (two palettes), SpecExtract (theme directory -> palette) and  *)
(* SpecLink (link manager on a small file system).  Each one leaves the    *)
(* other parts' variables at their initial values.                         *)
(***************************************************************************)
EXTENDS Integers, Sequences, FiniteSets, TLC

VARIABLES
    colorInput,        \* the string handed to Color::new (a sequence of characters)
    colorResult,       \* Result<Color>: [status |-> "none" | "ok" | "err", value]
    themeDir,          \* theme directory: source -> file state (absent, malformed, parse result)
    priority,          \* the &[ColorSource] argument of the running extract_colors
    exPc,              \* position in extract_colors: "idle", "loop", "done"
    exIdx,             \* index of the next source of the for loop (1-based)
    combined_palette,  \* extractor.rs:31
    primary_source,    \* extractor.rs:32
    exResult,          \* Result<(ColorPalette, ColorSource)> of the finished call
    dest,              \* program -> node at program.theme_dir/omarchy-theme
    generated,         \* file names present in source_dir
    backups,           \* backup_dir: backup name -> node
    clock,             \* chrono::Local::now() at one-second resolution
    create_backups,    \* SymlinkManager.create_backups
    lastCall,          \* record of the last create_symlink call (arguments, outcome, state before)
    lastRemove,        \* record of the last remove_symlink call (program, outcome, state before)
    mergeCall,         \* one ColorPalette::merge call: [self, other, result]
    config,            \* Generator.config
    themes,            \* theme directories: theme -> [sources, files]
    genPc,             \* position in a Generator run: "idle", "loop", "done"
    genMode,           \* "missing", "regenerate" or "deploy"
    genTheme,          \* the theme_dir argument of the run
    genIdx,            \* index of the next enabled program of the for loop (1-based)
    genPalette,        \* the palette extract_colors returned to the run
    results,           \* Vec<GenerationResult> of the run
    genResult,         \* what the run returned
    genLog,            \* file system and activation operations the run performed, in order
    attempted,         \* names of the programs the loop of the run has processed, in order
    genAbort,          \* what ended the run early: None, or the step whose error was returned
    firstRun,          \* no run of this Generator has ended before the current one started
    generatedFile,     \* node at <generated_themes_dir>/omarcord.theme.css
    vencordFile,       \* node at <vencord theme_dir>/omarcord.theme.css
    spicetifyLink,     \* node at <spicetify theme_dir>/text/color.ini
    settings,          \* the Vencord settings file
    commands,          \* spicetify commands issued by the last activation, in order
    lastAct,           \* record of the last call of the activator
    runs,              \* the finished calls of generate_and_deploy, in order
    watchLink,         \* node at config.watch_path
    queue,             \* events sent to the channel and not yet received, in arrival order
    watchPc,           \* position of ThemeWatcher: "idle", "initial", "handling", "setup", "recv", "settle", "returned", "crashed"
    channel,           \* "open", or "lost" when the sender of the channel is gone
    handled,           \* the runs of handle_theme_change, in order
    pending,           \* the targets the watch link is still going to be pointed at
    emitted,           \* every event sent to the channel so far, in arrival order
    current,           \* the call in progress: [mode, cause, theme_dir, existed]
    watchResult        \* what watch or run_once returned

colorVars   == <<colorInput, colorResult>>
extractVars == <<themeDir, priority, exPc, exIdx, combined_palette, primary_source, exResult>>
linkVars    == <<dest, generated, backups, clock, create_backups, lastCall, lastRemove>>
genVars     == <<config, themes, genPc, genMode, genTheme, genIdx, genPalette, results,
                 genResult, genLog, attempted, genAbort, firstRun>>
targetVars  == <<generatedFile, vencordFile, spicetifyLink, settings, commands>>
watchRest   == <<watchLink, queue, watchPc, channel, handled, pending, emitted, current,
                 watchResult>>
watchVars   == <<runs, watchRest>>
vars        == <<colorVars, extractVars, linkVars, mergeCall, genVars, targetVars, lastAct,
                 watchVars>>

None == "None"

\* no call of the watcher is in progress
NoHandling == [mode |-> None, cause |-> 0, theme_dir |-> <<>>, existed |-> FALSE]

\* Option<Color>::None; a Color is a sequence of characters
NoColor == <<>>

(***************************************************************************)
(* Bounds                                                                  *)
(***************************************************************************)
MaxLen     == 7   \* longest input string given to Color::new
MaxEntries == 3   \* colour assignments in one theme directory, all files together
MaxClock   == 1   \* last second the clock reaches

(***************************************************************************)
(* color.rs : Color                                                        *)
(***************************************************************************)
\* characters the inputs are drawn from: the mark, a lower- and an upper-case
\* hex digit, an ASCII non-digit and a two-byte non-ASCII letter
InputChars == {"#", "a", "F", "g", "U+00E9"}

HexDigits == {"0","1","2","3","4","5","6","7","8","9",
              "a","b","c","d","e","f","A","B","C","D","E","F"}

\* char::is_ascii_hexdigit
is_ascii_hexdigit(c) == c \in HexDigits

\* UTF-8 width of a character; str::len counts bytes
ByteWidth(c) == IF c = "U+00E9" THEN 2 ELSE 1

RECURSIVE ByteLen(_)
ByteLen(s) == IF s = <<>> THEN 0 ELSE ByteWidth(Head(s)) + ByteLen(Tail(s))

\* str::trim_start_matches('#'): strips every leading '#'
RECURSIVE trim_start_matches_hash(_)
trim_start_matches_hash(s) ==
    IF s # <<>> /\ Head(s) = "#" THEN trim_start_matches_hash(Tail(s)) ELSE s

\* the whole string repeated instead of each digit
DuplicateEach_Twice(s) == s \o s

\* hex.chars().flat_map(|c| repeat(c).take(2)).collect()
RECURSIVE DuplicateEach(_)
DuplicateEach(s) ==
    IF s = <<>> THEN <<>> ELSE <<Head(s), Head(s)>> \o DuplicateEach(Tail(s))

Ok(v)  == [status |-> "ok", value |-> v]
Err(e) == [status |-> "err", value |-> e]
NotCalled == [status |-> "none", value |-> <<>>]

\* Color::new, color.rs:13-36
Color_new(str) ==
    LET hexstr == trim_start_matches_hash(str) IN
    IF ByteLen(hexstr) # 3 /\ ByteLen(hexstr) # 6
      THEN Err("Invalid hex color length")
    ELSE IF ~ \A i \in 1..Len(hexstr) : is_ascii_hexdigit(hexstr[i])
      THEN Err("Invalid hex color format")
    ELSE LET normalized == IF ByteLen(hexstr) = 3 THEN DuplicateEach(hexstr) ELSE hexstr
         IN  Ok(<<"#">> \o normalized)

\* Color::hex, color.rs:39-41
hex(color) == color

\* Color::hex_no_hash, color.rs:45-47
hex_no_hash(color) == trim_start_matches_hash(color)

Strings(n) == UNION {[1..k -> InputChars] : k \in 0..n}

InitColor ==
    /\ colorInput \in Strings(MaxLen)
    /\ colorResult = NotCalled

\* a caller constructs a Color from the input string
ColorNew ==
    /\ colorResult.status = "none"
    /\ colorResult' = Color_new(colorInput)
    /\ UNCHANGED colorInput

\* a caller feeds a Color's hex() back into Color::new (FromStr, color.rs:67-73)
ColorFromHex ==
    /\ colorResult.status = "ok"
    /\ colorInput' = hex(colorResult.value)
    /\ colorResult' = Color_new(hex(colorResult.value))

\* a caller feeds a Color's hex_no_hash() back into Color::new
ColorFromHexNoHash ==
    /\ colorResult.status = "ok"
    /\ colorInput' = hex_no_hash(colorResult.value)
    /\ colorResult' = Color_new(hex_no_hash(colorResult.value))

(***************************************************************************)
(* color.rs : ColorPalette                                                 *)
(***************************************************************************)
\* the Option<Color> fields of ColorPalette, color.rs:79-105
FixedSlots == {"background", "foreground",
               "black", "red", "green", "yellow", "blue", "magenta", "cyan", "white",
               "bright_black", "bright_red", "bright_green", "bright_yellow",
               "bright_blue", "bright_magenta", "bright_cyan", "bright_white",
               "cursor", "selection_background", "selection_foreground"}

EmptyMap == [k \in {} |-> NoColor]

\* ColorPalette::default(): every slot None, custom empty
ColorPalette_default == [fixed |-> [f \in FixedSlots |-> NoColor], custom |-> EmptyMap]

\* the fixed slots and custom keys that the modelled theme files assign, and
\* the colours they assign
InputSlots  == {"background", "foreground", "black"}
InputCustom == {"title"}
ThemeColors == {Color_new(<<"#","e","f","f","1","f","5">>).value,
                Color_new(<<"4","c","4","f","6","9">>).value}

\* number of colours a palette holds
Entries(p) ==
    Cardinality({f \in FixedSlots : p.fixed[f] # NoColor}) + Cardinality(DOMAIN p.custom)

PartialMaps(keys, vals) == UNION {[d -> vals] : d \in SUBSET keys}

\* palettes over the given fixed slots and custom keys
PalettesOver(slots, keys) ==
    {[fixed  |-> [f \in FixedSlots |-> IF f \in DOMAIN m THEN m[f] ELSE NoColor],
      custom |-> c] : m \in PartialMaps(slots, ThemeColors),
                      c \in PartialMaps(keys, ThemeColors)}

\* the merge_field! macro, color.rs:131-137
merge_field_Overwrite(self, other, field) ==
    IF other.fixed[field] # NoColor THEN other.fixed[field] ELSE self.fixed[field]

merge_field(self, other, field) ==
    IF self.fixed[field] = NoColor /\ other.fixed[field] # NoColor
      THEN other.fixed[field]
      ELSE self.fixed[field]

\* self.custom.entry(key).or_insert(value) for every (key, value) of other.custom
merge_custom(self, other) ==
    [k \in DOMAIN self.custom \cup DOMAIN other.custom |->
        IF k \in DOMAIN self.custom THEN self.custom[k] ELSE other.custom[k]]

\* ColorPalette::merge, color.rs:130-165
merge(self, other) ==
    [fixed  |-> [f \in FixedSlots |-> merge_field(self, other, f)],
     custom |-> merge_custom(self, other)]

InitMerge ==
    mergeCall \in {[self |-> a, other |-> b, result |-> NotCalled] :
                      a \in PalettesOver(InputSlots, InputCustom),
                      b \in PalettesOver(InputSlots, InputCustom)}

\* a.merge(b)
Merge ==
    /\ mergeCall.result.status = "none"
    /\ mergeCall' = [mergeCall EXCEPT !.result = Ok(merge(mergeCall.self, mergeCall.other))]

(***************************************************************************)
(* extractor.rs : extract_colors                                           *)
(***************************************************************************)
\* enum ColorSource, extractor.rs:9-13
Sources == {"Alacritty", "Btop", "CustomJson"}

\* ColorSource::filename, extractor.rs:16-22
filename(source) ==
    CASE source = "Alacritty"  -> "alacritty.toml"
      [] source = "Btop"       -> "btop.theme"
      [] source = "CustomJson" -> "custom_theme.json"

\* A theme file is represented by what its parser makes of it.
Absent    == [kind |-> "absent"]
Malformed == [kind |-> "malformed"]
Parsable(p) == [kind |-> "ok", palette |-> p]

\* what each parser can return: parse_alacritty fills fixed slots only
\* (parser.rs:17-92), parse_btop fills background, foreground and custom keys
\* (parser.rs:108-114), parse_custom_json fills fixed slots and custom keys
\* (parser.rs:138-163)
ParsedPalettes(source) ==
    CASE source = "Alacritty"  -> PalettesOver(InputSlots, {})
      [] source = "Btop"       -> PalettesOver(InputSlots \cap {"background", "foreground"},
                                               InputCustom)
      [] source = "CustomJson" -> PalettesOver(InputSlots, InputCustom)

FileStates(source) ==
    {Absent, Malformed} \cup {Parsable(p) : p \in ParsedPalettes(source)}

FileEntries(file) == IF file.kind = "ok" THEN Entries(file.palette) ELSE 0

ThemeDirs ==
    {d \in {[s \in Sources |-> CASE s = "Alacritty"  -> a
                                [] s = "Btop"       -> b
                                [] s = "CustomJson" -> j] :
               a \in FileStates("Alacritty"), b \in FileStates("Btop"),
               j \in FileStates("CustomJson")} :
        FileEntries(d["Alacritty"]) + FileEntries(d["Btop"])
          + FileEntries(d["CustomJson"]) <= MaxEntries}

\* priority lists: every list of sources, repetitions included, up to the
\* number of sources
PriorityLists == UNION {[1..n -> Sources] : n \in 0..Cardinality(Sources)}

\* file_path.exists(), extractor.rs:37
file_exists(dir, source) == dir[source].kind # "absent"

\* parser::parse_alacritty / parse_btop / parse_custom_json on an existing file,
\* extractor.rs:48-52
parse(dir, source) ==
    IF dir[source].kind = "ok" THEN Ok(dir[source].palette)
                               ELSE Err("ParseError")

\* the fallback colours, extractor.rs:90 and extractor.rs:95
DefaultBackground == Color_new(<<"#","f","f","f","f","f","f">>).value
DefaultForeground == Color_new(<<"#","0","0","0","0","0","0">>).value

apply_defaults_Always(palette) ==
    [palette EXCEPT !.fixed["background"] = DefaultBackground,
                    !.fixed["foreground"] = DefaultForeground]

\* extractor.rs:87-96
apply_defaults(palette) ==
    [palette EXCEPT
       !.fixed["background"] = IF @ = NoColor THEN DefaultBackground ELSE @,
       !.fixed["foreground"] = IF @ = NoColor THEN DefaultForeground ELSE @]

ExtractIdle ==
    /\ priority = <<>>
    /\ exPc = "idle"
    /\ exIdx = 1
    /\ combined_palette = ColorPalette_default
    /\ primary_source = None
    /\ exResult = NotCalled

InitExtract ==
    /\ themeDir \in ThemeDirs
    /\ ExtractIdle

\* extract_colors(theme_dir, priority) is entered, extractor.rs:27-32
ExtractCall ==
    /\ exPc = "idle"
    /\ priority' \in PriorityLists
    /\ exPc' = "loop"
    /\ exIdx' = 1
    /\ combined_palette' = ColorPalette_default
    /\ primary_source' = None
    /\ UNCHANGED <<themeDir, exResult>>

\* one iteration, file missing: continue, extractor.rs:37-44
ExtractSkipMissing ==
    /\ exPc = "loop"
    /\ exIdx <= Len(priority)
    /\ ~ file_exists(themeDir, priority[exIdx])
    /\ exIdx' = exIdx + 1
    /\ UNCHANGED <<themeDir, priority, exPc, combined_palette, primary_source, exResult>>

ExtractParsed_Replace ==
    /\ exPc = "loop"
    /\ exIdx <= Len(priority)
    /\ file_exists(themeDir, priority[exIdx])
    /\ parse(themeDir, priority[exIdx]).status = "ok"
    /\ primary_source' = IF primary_source = None THEN priority[exIdx] ELSE primary_source
    /\ combined_palette' = parse(themeDir, priority[exIdx]).value
    /\ exIdx' = exIdx + 1
    /\ UNCHANGED <<themeDir, priority, exPc, exResult>>

\* one iteration, file parsed: first success becomes primary, palette merged,
\* extractor.rs:55-68
ExtractParsed ==
    /\ exPc = "loop"
    /\ exIdx <= Len(priority)
    /\ file_exists(themeDir, priority[exIdx])
    /\ parse(themeDir, priority[exIdx]).status = "ok"
    /\ primary_source' = IF primary_source = None THEN priority[exIdx] ELSE primary_source
    /\ combined_palette' = merge(combined_palette, parse(themeDir, priority[exIdx]).value)
    /\ exIdx' = exIdx + 1
    /\ UNCHANGED <<themeDir, priority, exPc, exResult>>

ExtractParseFailed_Primary ==
    /\ exPc = "loop"
    /\ exIdx <= Len(priority)
    /\ file_exists(themeDir, priority[exIdx])
    /\ parse(themeDir, priority[exIdx]).status = "err"
    /\ primary_source' = IF primary_source = None THEN priority[exIdx] ELSE primary_source
    /\ exIdx' = exIdx + 1
    /\ UNCHANGED <<themeDir, priority, exPc, combined_palette, exResult>>

\* one iteration, parse error: warn and go on, extractor.rs:69-75
ExtractParseFailed ==
    /\ exPc = "loop"
    /\ exIdx <= Len(priority)
    /\ file_exists(themeDir, priority[exIdx])
    /\ parse(themeDir, priority[exIdx]).status = "err"
    /\ exIdx' = exIdx + 1
    /\ UNCHANGED <<themeDir, priority, exPc, combined_palette, primary_source, exResult>>

ExtractBail_OnEmpty ==
    /\ exPc = "loop"
    /\ exIdx > Len(priority)
    /\ Entries(combined_palette) = 0
    /\ exPc' = "done"
    /\ exResult' = Err("NoColorSource")
    /\ UNCHANGED <<themeDir, priority, exIdx, combined_palette, primary_source>>

\* after the loop, no source parsed: bail, extractor.rs:80-85
ExtractBail ==
    /\ exPc = "loop"
    /\ exIdx > Len(priority)
    /\ primary_source = None
    /\ exPc' = "done"
    /\ exResult' = Err("NoColorSource")
    /\ UNCHANGED <<themeDir, priority, exIdx, combined_palette, primary_source>>

\* after the loop, some source parsed: defaults, then Ok, extractor.rs:87-98
ExtractReturn ==
    /\ exPc = "loop"
    /\ exIdx > Len(priority)
    /\ primary_source # None
    /\ exPc' = "done"
    /\ combined_palette' = apply_defaults(combined_palette)
    /\ exResult' = Ok([palette |-> apply_defaults(combined_palette),
                       source  |-> primary_source])
    /\ UNCHANGED <<themeDir, priority, exIdx, primary_source>>

(***************************************************************************)
(* extractor.rs : extract_colors as one call                               *)
(***************************************************************************)
\* the for loop of extract_colors, extractor.rs:34-77
RECURSIVE extract_loop(_, _, _, _)
extract_loop(dir, prio, acc, primary) ==
    IF prio = <<>> THEN [palette |-> acc, primary |-> primary]
    ELSE IF ~ file_exists(dir, Head(prio))
      THEN extract_loop(dir, Tail(prio), acc, primary)
    ELSE IF parse(dir, Head(prio)).status = "ok"
      THEN extract_loop(dir, Tail(prio), merge(acc, parse(dir, Head(prio)).value),
                        IF primary = None THEN Head(prio) ELSE primary)
      ELSE extract_loop(dir, Tail(prio), acc, primary)

\* extract_colors, extractor.rs:27-99
extract_colors(dir, prio) ==
    LET r == extract_loop(dir, prio, ColorPalette_default, None)
    IN  IF r.primary = None
          THEN Err("NoColorSource")
          ELSE Ok([palette |-> apply_defaults(r.palette), source |-> r.primary])

\* the stepwise model of extract_colors and the one-call operator agree
ExtractAgrees == exPc = "done" => exResult = extract_colors(themeDir, priority)

(***************************************************************************)
(* templates.rs : TemplateRenderer                                         *)
(***************************************************************************)
\* A template name is the sequence of its parts between the dots:
\* "omarcord.theme.css" is <<"omarcord", "theme", "css">>.
EmbeddedTemplates == {<<"omarcord", "theme", "css">>, <<"omarchify-colors", "ini">>}

\* template_name.contains('.')
contains_dot(template_name) == Len(template_name) > 1

\* format!("{}<suffix>", template_name) for the suffixes probed, templates.rs:103-112
with_suffix(template_name, dash, ext) ==
    [template_name EXCEPT ![Len(template_name)] = @ \o dash] \o ext

\* the probing order of TemplateRenderer::render, templates.rs:98-116
full_template_name(template_name) ==
    IF contains_dot(template_name) THEN template_name
    ELSE IF with_suffix(template_name, "", <<"theme", "css">>) \in EmbeddedTemplates
      THEN with_suffix(template_name, "", <<"theme", "css">>)
    ELSE IF with_suffix(template_name, "", <<"ini">>) \in EmbeddedTemplates
      THEN with_suffix(template_name, "", <<"ini">>)
    ELSE IF with_suffix(template_name, "-colors", <<"ini">>) \in EmbeddedTemplates
      THEN with_suffix(template_name, "-colors", <<"ini">>)
    ELSE IF with_suffix(template_name, "-colors", <<"css">>) \in EmbeddedTemplates
      THEN with_suffix(template_name, "-colors", <<"css">>)
    ELSE IF with_suffix(template_name, "", <<"css">>) \in EmbeddedTemplates
      THEN with_suffix(template_name, "", <<"css">>)
      ELSE template_name

\* the text a template renders to is a function of the template and of the
\* palette bound into its context (extra_vars are empty in every ProgramConfig
\* modelled)
Rendered(full_name, palette) == [template |-> full_name, palette |-> palette]

\* TemplateRenderer::render, templates.rs:46-123: tera fails on an unknown
\* template; a template that uses a variable the context lacks fails too,
\* which is the fault "render"
render(template_name, palette, fail) ==
    IF full_template_name(template_name) \notin EmbeddedTemplates
      THEN Err("TemplateNotFound")
    ELSE IF fail = "render"
      THEN Err("RenderError")
      ELSE Ok(Rendered(full_template_name(template_name), palette))

(***************************************************************************)
(* config.rs : Config                                                      *)
(***************************************************************************)
MaxPrograms == 2   \* longest list of programs in the configuration

\* ProgramConfig entries, config.rs:89-102, and one whose template is not embedded
Omarcord  == [name |-> "omarcord", enabled |-> TRUE,
              output_file |-> "omarcord.theme.css", template |-> <<"omarcord">>]
Omarchify == [name |-> "omarchify", enabled |-> TRUE,
              output_file |-> "color.ini", template |-> <<"omarchify">>]
Omarcava  == [name |-> "omarcava", enabled |-> TRUE,
              output_file |-> "omarcava.conf", template |-> <<"omarcava">>]

ProgramEntries ==
    {[e EXCEPT !.enabled = b] : e \in {Omarcord, Omarchify, Omarcava}, b \in BOOLEAN}

OutputFiles == {e.output_file : e \in ProgramEntries}

\* Config::programs: lists of entries with distinct names
ProgramLists ==
    {l \in UNION {[1..n -> ProgramEntries] : n \in 0..MaxPrograms} :
        \A i, j \in DOMAIN l : i # j => l[i].name # l[j].name}

\* default_color_priority, config.rs:45-51
default_color_priority == <<"alacritty.toml", "custom_theme.json", "btop.theme">>

Configs ==
    [programs : ProgramLists, color_priority : {default_color_priority},
     auto_activate : BOOLEAN, create_backups : BOOLEAN, auto_symlink : BOOLEAN]

\* Config::default, config.rs:84-111
Config_default ==
    [programs |-> <<Omarcord, Omarchify>>, color_priority |-> default_color_priority,
     auto_activate |-> TRUE, create_backups |-> TRUE, auto_symlink |-> TRUE]

RECURSIVE SelectSeq2(_, _)
SelectSeq2(seq, keep) ==
    IF seq = <<>> THEN <<>>
    ELSE IF Head(seq) \in keep THEN <<Head(seq)>> \o SelectSeq2(Tail(seq), keep)
                               ELSE SelectSeq2(Tail(seq), keep)

\* Config::enabled_programs, config.rs:174-176
enabled_programs(cfg) == SelectSeq2(cfg.programs, {e \in ProgramEntries : e.enabled})

\* one element of Generator::parse_color_priority's filter_map, generator.rs:285-293
color_source(name) ==
    CASE name = "alacritty.toml"    -> <<"Alacritty">>
      [] name = "btop.theme"        -> <<"Btop">>
      [] name = "custom_theme.json" -> <<"CustomJson">>
      [] OTHER                      -> <<>>

\* Generator::parse_color_priority, generator.rs:281-295
RECURSIVE parse_color_priority(_)
parse_color_priority(names) ==
    IF names = <<>> THEN <<>>
    ELSE color_source(Head(names)) \o parse_color_priority(Tail(names))

(***************************************************************************)
(* linker.rs : SymlinkManager                                              *)
(***************************************************************************)
\* the installed programs run_link_mode links, main.rs:211-218, and their sources
Programs    == {"vencord", "spicetify"}
SourceFiles == {"vencord.theme.css", "spicetify-omarchy"}

\* self.source_dir.join(source_filename), linker.rs:70
SourcePath(source_filename) == <<"source_dir", source_filename>>

\* a path outside source_dir at which nothing exists
Elsewhere == <<"elsewhere">>

LinkTargets == {SourcePath(f) : f \in SourceFiles} \cup {Elsewhere}

\* what can be at program.theme_dir/omarchy-theme (linker.rs:71); a regular
\* file or directory of a program holds that program's own content
NoNode        == [kind |-> "none"]
Symlink(t)    == [kind |-> "symlink", target |-> t]
RegularFile(c) == [kind |-> "file", content |-> c]
Directory(c)  == [kind |-> "dir", content |-> c]

OriginalContent(program) == <<"original", program>>

DestNodes(program) ==
    {NoNode} \cup {Symlink(t) : t \in LinkTargets}
             \cup {RegularFile(OriginalContent(program)), Directory(OriginalContent(program))}

\* Path::exists on a path of source_dir
source_exists(gen, source_filename) == source_filename \in gen

\* Path::is_symlink, Path::is_dir and Path::exists on the destination;
\* exists follows a link
is_symlink(node) == node.kind = "symlink"
is_dir(node)     == node.kind = "dir"
node_exists(gen, node) ==
    CASE node.kind = "none"    -> FALSE
      [] node.kind = "symlink" -> \E f \in gen : node.target = SourcePath(f)
      [] OTHER                 -> TRUE

\* the file system call of a create_symlink that fails, if it is reached
FsFaults == {"none", "backup", "remove", "symlink"}

\* format!("{}_{}", filename, timestamp), linker.rs:145-151
BackupName(ts) == <<"omarchy-theme", ts>>

\* SymlinkManager::backup_existing, linker.rs:144-167: a directory is copied
\* with fs_extra::dir::copy, which refuses an occupied destination; a file is
\* copied with fs::copy, which replaces a file of the same name and fails on
\* a directory
backup_existing(node, bk, ts, fail) ==
    LET name == BackupName(ts)
        occupied == name \in DOMAIN bk
        put(n) == [k \in DOMAIN bk \cup {name} |-> IF k = name THEN n ELSE bk[k]]
    IN  IF fail = "backup" THEN [status |-> "err", backups |-> bk]
        ELSE IF is_dir(node)
          THEN IF occupied THEN [status |-> "err", backups |-> bk]
                           ELSE [status |-> "ok", backups |-> put(Directory(node.content))]
          ELSE IF occupied /\ bk[name].kind = "dir"
                 THEN [status |-> "err", backups |-> bk]
                 ELSE [status |-> "ok", backups |-> put(RegularFile(node.content))]

link_is_correct_Any(link_target, source_path) == TRUE

\* link_target == source_path, linker.rs:92
link_is_correct(link_target, source_path) == link_target = source_path

\* the destination is a symlink, linker.rs:90-106
replace_link(node, bk, source_path, fail) ==
    IF link_is_correct(node.target, source_path)
      THEN [status |-> "exists", node |-> node, backups |-> bk]
    ELSE IF fail = "remove"
      THEN [status |-> "err", node |-> node, backups |-> bk]
      ELSE [status |-> "removed", node |-> NoNode, backups |-> bk]

replace_regular_RemoveFirst(node, bk, cb, ts, fail) ==
    IF fail = "remove" THEN [status |-> "err", node |-> node, backups |-> bk]
    ELSE LET b == IF cb THEN backup_existing(node, bk, ts, fail)
                        ELSE [status |-> "ok", backups |-> bk]
         IN  IF b.status = "err"
               THEN [status |-> "err", node |-> NoNode, backups |-> bk]
               ELSE [status |-> "removed", node |-> NoNode, backups |-> b.backups]

\* the destination is a regular file or a directory, linker.rs:107-122
replace_regular(node, bk, cb, ts, fail) ==
    LET b == IF cb THEN backup_existing(node, bk, ts, fail)
                   ELSE [status |-> "ok", backups |-> bk]
    IN  IF b.status = "err"
          THEN [status |-> "err", node |-> node, backups |-> bk]
        ELSE IF fail = "remove"
          THEN [status |-> "err", node |-> node, backups |-> b.backups]
          ELSE [status |-> "removed", node |-> NoNode, backups |-> b.backups]

\* unix_fs::symlink(&source_path, &target_path), linker.rs:126-131
make_symlink(st, source_path, fail) ==
    IF fail = "symlink"
      THEN [outcome |-> "err", node |-> st.node, backups |-> st.backups]
      ELSE [outcome |-> "ok", node |-> Symlink(source_path), backups |-> st.backups]

create_symlink_Recreate(node, bk, gen, cb, ts, source_filename, fail) ==
    LET source_path == SourcePath(source_filename) IN
    IF ~ source_exists(gen, source_filename)
      THEN [outcome |-> "nosource", node |-> node, backups |-> bk]
    ELSE IF node_exists(gen, node) \/ is_symlink(node)
      THEN LET st == IF is_symlink(node)
                       THEN IF fail = "remove"
                              THEN [status |-> "err", node |-> node, backups |-> bk]
                              ELSE [status |-> "removed", node |-> NoNode, backups |-> bk]
                       ELSE replace_regular(node, bk, cb, ts, fail)
           IN  CASE st.status = "err"     -> [outcome |-> "err", node |-> st.node,
                                              backups |-> st.backups]
                 [] st.status = "removed" -> make_symlink(st, source_path, fail)
      ELSE make_symlink([node |-> node, backups |-> bk], source_path, fail)

\* SymlinkManager::create_symlink, linker.rs:65-141.  outcome: "ok" is
\* Ok(success), "nosource" is Ok(success = false), "err" is Err
create_symlink(node, bk, gen, cb, ts, source_filename, fail) ==
    LET source_path == SourcePath(source_filename) IN
    IF ~ source_exists(gen, source_filename)
      THEN [outcome |-> "nosource", node |-> node, backups |-> bk]
    ELSE IF node_exists(gen, node) \/ is_symlink(node)
      THEN LET st == IF is_symlink(node)
                       THEN replace_link(node, bk, source_path, fail)
                       ELSE replace_regular(node, bk, cb, ts, fail)
           IN  CASE st.status = "err"     -> [outcome |-> "err", node |-> st.node,
                                              backups |-> st.backups]
                 [] st.status = "exists"  -> [outcome |-> "ok", node |-> st.node,
                                              backups |-> st.backups]
                 [] st.status = "removed" -> make_symlink(st, source_path, fail)
      ELSE make_symlink([node |-> node, backups |-> bk], source_path, fail)

NoCall(d, bk) == [program |-> None, file |-> None, fail |-> None, outcome |-> None,
                  repeat |-> FALSE, at |-> 0, before |-> [dest |-> d, backups |-> bk]]

remove_symlink_Any(node, gen, fail) ==
    IF ~ node_exists(gen, node) /\ ~ is_symlink(node)
      THEN [outcome |-> "ok", message |-> "Symlink doesn't exist", node |-> node]
    ELSE IF fail = "remove"
      THEN [outcome |-> "err", message |-> "Failed to remove symlink", node |-> node]
      ELSE [outcome |-> "ok", message |-> "Symlink removed successfully", node |-> NoNode]

\* SymlinkManager::remove_symlink, linker.rs:170-203.  outcome: "ok" is
\* Ok(success), "notlink" is Ok(success = false), "err" is Err
remove_symlink(node, gen, fail) ==
    IF ~ node_exists(gen, node) /\ ~ is_symlink(node)
      THEN [outcome |-> "ok", message |-> "Symlink doesn't exist", node |-> node]
    ELSE IF is_symlink(node)
      THEN IF fail = "remove"
             THEN [outcome |-> "err", message |-> "Failed to remove symlink", node |-> node]
             ELSE [outcome |-> "ok", message |-> "Symlink removed successfully",
                   node |-> NoNode]
      ELSE [outcome |-> "notlink", message |-> "Not a symlink, skipping removal",
            node |-> node]

NoRemoval == [program |-> None, fail |-> None, outcome |-> None, message |-> None,
              before |-> [dest |-> [p \in Programs |-> NoNode], backups |-> EmptyMap]]

LinkIdle ==
    /\ dest = [p \in Programs |-> NoNode]
    /\ generated = {}
    /\ backups = EmptyMap
    /\ clock = 0
    /\ create_backups = TRUE
    /\ lastCall = NoCall(dest, backups)
    /\ lastRemove = NoRemoval

InitLink ==
    /\ dest \in [Programs -> UNION {DestNodes(p) : p \in Programs}]
    /\ \A p \in Programs : dest[p] \in DestNodes(p)
    /\ generated \in SUBSET SourceFiles
    /\ backups = EmptyMap
    /\ clock = 0
    /\ create_backups \in BOOLEAN
    /\ lastCall = NoCall(dest, backups)
    /\ lastRemove = NoRemoval

\* linker.create_symlink(program, source_file); repeat records that the call
\* before it was the same call and succeeded
CreateSymlink(program, source_filename, fail) ==
    LET r == create_symlink(dest[program], backups, generated, create_backups,
                            clock, source_filename, fail)
    IN  /\ dest' = [dest EXCEPT ![program] = r.node]
        /\ backups' = r.backups
        /\ lastCall' = [program |-> program, file |-> source_filename, fail |-> fail,
                        outcome |-> r.outcome,
                        repeat  |-> /\ lastCall.program = program
                                    /\ lastCall.file = source_filename
                                    /\ lastCall.outcome = "ok",
                        at      |-> clock,
                        before  |-> [dest |-> dest, backups |-> backups]]
        /\ lastRemove' = NoRemoval
        /\ UNCHANGED <<generated, clock, create_backups>>

\* linker.remove_symlink(program), main.rs:250-251
RemoveSymlink(program, fail) ==
    LET r == remove_symlink(dest[program], generated, fail)
    IN  /\ dest' = [dest EXCEPT ![program] = r.node]
        /\ lastRemove' = [program |-> program, fail |-> fail, outcome |-> r.outcome,
                          message |-> r.message,
                          before  |-> [dest |-> dest, backups |-> backups]]
        /\ lastCall' = NoCall([p \in Programs |-> NoNode], EmptyMap)
        /\ UNCHANGED <<generated, backups, clock, create_backups>>

\* a second passes
Tick ==
    /\ clock < MaxClock
    /\ clock' = clock + 1
    /\ UNCHANGED <<dest, generated, backups, create_backups, lastCall, lastRemove>>

(***************************************************************************)
(* activator.rs : ThemeActivator                                           *)
(***************************************************************************)
\* serde_json values
JObject(fields) == [type |-> "object", fields |-> fields]
JArray(items)   == [type |-> "array", items |-> items]
JString(str)    == [type |-> "string", value |-> str]

\* the settings file: absent, not JSON, or a JSON document
Unparsable == [kind |-> "unparsable"]
SettingsDoc(root) == [kind |-> "json", root |-> root]

\* the theme names of activate_vencord (activator.rs:110) and activate_omarcord
\* (activator.rs:52), and one of the user's own (activator.rs:429)
ThemeNames == {"omarchy-theme", "omarcord.theme.css"}
EnabledNames == {"omarchy-theme", "other-theme.css"}

\* enabledThemes lists of an initial settings file, repetitions included
ThemeLists == UNION {[1..n -> EnabledNames] : n \in 0..Cardinality(EnabledNames)}

\* other keys of the document, activator.rs:430
OtherFields == {EmptyMap, [plugins |-> JObject([somePlugin |-> JString("true")])]}

WithField(fields, key, value) ==
    [k \in DOMAIN fields \cup {key} |-> IF k = key THEN value ELSE fields[k]]

\* documents: an object without enabledThemes, with one that is not an array,
\* with a list; and a document whose root is an array
SettingsObjects ==
    {JObject(o) : o \in OtherFields}
      \cup {JObject(WithField(o, "enabledThemes", JString("none"))) : o \in OtherFields}
      \cup {JObject(WithField(o, "enabledThemes", JArray(l))) :
               o \in OtherFields, l \in ThemeLists}
SettingsFiles ==
    {Absent, Unparsable, SettingsDoc(JArray(<<>>))}
      \cup {SettingsDoc(r) : r \in SettingsObjects}

\* the call of the activation that fails, if it is reached: reading the
\* settings file, or creating or writing it
ActFaults == {"none", "read", "write"}

Message(text) == [text |-> text, error |-> <<>>]

\* themes.iter().any(|t| t.as_str() == Some(theme_name)), activator.rs:173-175
already_enabled(items, theme_name) == \E i \in DOMAIN items : items[i] = theme_name

\* json!({"enabledThemes": [theme_name], "plugins": {}}), activator.rs:135-138
default_settings(theme_name) ==
    SettingsDoc(JObject([enabledThemes |-> JArray(<<theme_name>>),
                         plugins |-> JObject(EmptyMap)]))

activate_vencord_with_name_Push(file, theme_name, fail) ==
    IF file.kind = "absent"
      THEN IF fail = "write"
             THEN [outcome |-> "err", message |-> Message("Failed to write settings file"),
                   file |-> file]
             ELSE [outcome |-> "ok",
                   message |-> Message("Theme enabled (created new settings)"),
                   file |-> default_settings(theme_name)]
    ELSE IF fail = "read"
      THEN [outcome |-> "err", message |-> Message("Failed to read Vencord settings"),
            file |-> file]
    ELSE IF file.kind = "unparsable"
      THEN [outcome |-> "err", message |-> Message("Failed to parse Vencord settings"),
            file |-> file]
    ELSE IF file.root.type # "object"
      THEN [outcome |-> "panic", message |-> Message("cannot access key in JSON array"),
            file |-> file]
    ELSE LET fields == IF "enabledThemes" \in DOMAIN file.root.fields
                         THEN file.root.fields
                         ELSE WithField(file.root.fields, "enabledThemes", JArray(<<>>))
             enabled == fields["enabledThemes"]
         IN  IF enabled.type # "array"
               THEN [outcome |-> "err",
                     message |-> Message("enabledThemes is not an array"), file |-> file]
             ELSE IF fail = "write"
               THEN [outcome |-> "err",
                     message |-> Message("Failed to write Vencord settings"),
                     file |-> file]
               ELSE [outcome |-> "ok", message |-> Message("Theme enabled successfully"),
                     file |-> SettingsDoc(JObject(WithField(fields, "enabledThemes",
                                  JArray(Append(enabled.items, theme_name)))))]

\* ThemeActivator::activate_vencord_with_name, activator.rs:114-203.  The
\* settings path of a detected program is always Some (detector.rs:118-120).
\* outcome: "ok" is Ok(success), "err" is Err, "panic" is the panic of
\* settings["enabledThemes"] = json!([]) on a document that is not an object
activate_vencord_with_name(file, theme_name, fail) ==
    IF file.kind = "absent"
      THEN IF fail = "write"
             THEN [outcome |-> "err", message |-> Message("Failed to write settings file"),
                   file |-> file]
             ELSE [outcome |-> "ok",
                   message |-> Message("Theme enabled (created new settings)"),
                   file |-> default_settings(theme_name)]
    ELSE IF fail = "read"
      THEN [outcome |-> "err", message |-> Message("Failed to read Vencord settings"),
            file |-> file]
    ELSE IF file.kind = "unparsable"
      THEN [outcome |-> "err", message |-> Message("Failed to parse Vencord settings"),
            file |-> file]
    ELSE IF file.root.type # "object"
      THEN [outcome |-> "panic", message |-> Message("cannot access key in JSON array"),
            file |-> file]
    ELSE LET fields == IF "enabledThemes" \in DOMAIN file.root.fields
                         THEN file.root.fields
                         ELSE WithField(file.root.fields, "enabledThemes", JArray(<<>>))
             enabled == fields["enabledThemes"]
         IN  IF enabled.type # "array"
               THEN [outcome |-> "err",
                     message |-> Message("enabledThemes is not an array"), file |-> file]
             ELSE IF already_enabled(enabled.items, theme_name)
               THEN [outcome |-> "ok", message |-> Message("Theme already enabled"),
                     file |-> file]
             ELSE IF fail = "write"
               THEN [outcome |-> "err",
                     message |-> Message("Failed to write Vencord settings"),
                     file |-> file]
               ELSE [outcome |-> "ok", message |-> Message("Theme enabled successfully"),
                     file |-> SettingsDoc(JObject(WithField(fields, "enabledThemes",
                                  JArray(Append(enabled.items, theme_name)))))]

\* the three spicetify invocations, activator.rs:235-268
SetTheme(theme_name)   == <<"config", "current_theme", theme_name>>
SetScheme(color_scheme) == <<"config", "color_scheme", color_scheme>>
Apply                  == <<"apply">>

\* what Command::output gives: the command ran and exited with success, ran
\* and exited with failure, or could not be run
CommandOutcomes == {"success", "failure", "spawn"}
Outputs == [1..3 -> CommandOutcomes]

\* the inputs of an activation of spicetify: without the CLI no command runs
SpicetifyInputs ==
    {[cli_available |-> FALSE, outs |-> [i \in 1..3 |-> "success"]]}
      \cup {[cli_available |-> TRUE, outs |-> o] : o \in Outputs}

\* the same without the outcomes of commands that follow a command that did
\* not succeed, which activate_spicetify_with_scheme does not run
SpicetifyRuns ==
    {x \in SpicetifyInputs :
        \A i, j \in 1..3 : (i < j /\ x.outs[i] # "success") => x.outs[j] = "success"}

\* String::from_utf8_lossy(&output.stderr) of the i-th command
Stderr(i) == <<"stderr", i>>

Failure(text, i) == [text |-> text, error |-> Stderr(i)]

\* the commands in the order of the source and the message of each failure
spicetify_commands(theme_name, color_scheme) ==
    <<SetTheme(theme_name), SetScheme(color_scheme), Apply>>
spicetify_errors ==
    <<"Failed to set theme", "Failed to set color scheme", "Failed to apply theme">>

RECURSIVE run_commands_All(_, _, _, _)
run_commands_All(cmds, outs, i, issued) ==
    IF i > Len(cmds)
      THEN IF \E j \in 1..Len(cmds) : outs[j] = "failure"
             THEN [outcome |-> "failed",
                   message |-> Failure(spicetify_errors[
                                 CHOOSE j \in 1..Len(cmds) : outs[j] = "failure"],
                                 CHOOSE j \in 1..Len(cmds) : outs[j] = "failure"),
                   commands |-> issued]
             ELSE [outcome |-> "ok", message |-> Message("applied successfully"),
                   commands |-> issued]
    ELSE IF outs[i] = "spawn"
      THEN [outcome |-> "err", message |-> Message("Failed to execute spicetify"),
            commands |-> issued]
      ELSE run_commands_All(cmds, outs, i + 1, Append(issued, cmds[i]))

\* the command sequence of activate_spicetify_with_scheme, activator.rs:235-286:
\* a command that cannot be run is an Err, one that exits with failure ends the
\* sequence with Ok(success = false)
RECURSIVE run_commands(_, _, _, _)
run_commands(cmds, outs, i, issued) ==
    IF i > Len(cmds)
      THEN [outcome |-> "ok", message |-> Message("applied successfully"),
            commands |-> issued]
    ELSE IF outs[i] = "spawn"
      THEN [outcome |-> "err", message |-> Message("Failed to execute spicetify"),
            commands |-> issued]
    ELSE IF outs[i] = "failure"
      THEN [outcome |-> "failed", message |-> Failure(spicetify_errors[i], i),
            commands |-> Append(issued, cmds[i])]
      ELSE run_commands(cmds, outs, i + 1, Append(issued, cmds[i]))

\* ThemeActivator::activate_spicetify_with_scheme, activator.rs:211-286.
\* outcome: "ok" is Ok(success), "failed" is Ok(success = false), "err" is Err
activate_spicetify_with_scheme(cli_available, theme_name, color_scheme, outs) ==
    IF ~ cli_available
      THEN [outcome |-> "failed",
            message |-> Message("CLI not available - please activate manually"),
            commands |-> <<>>]
      ELSE run_commands(spicetify_commands(theme_name, color_scheme), outs, 1, <<>>)

\* ThemeActivator::activate_omarcava, activator.rs:61-106: Ok(success) whether
\* or not cava runs and whether or not the notification is sent
activate_omarcava == [outcome |-> "ok", message |-> Message("Config updated or ready")]

\* struct ActivationResult, activator.rs:11-15
ActivationResult(program, success, message) ==
    [program |-> program, success |-> success, message |-> message]

\* programs as ProgramDetector::detect_all orders them, detector.rs:59-83
DetectedOrder == <<"vencord", "spicetify", "cava", "tclock">>
DetectedLists ==
    {SelectSeq2(DetectedOrder, keep) : keep \in SUBSET {"vencord", "spicetify", "tclock"}}
      \cup {DetectedOrder}

\* whether a program is in a list
Listed(programs, name) == \E i \in DOMAIN programs : programs[i] = name

\* the match of activate_all for one program, activator.rs:26-35
activate_program(program, file, fail, cli_available, outs) ==
    CASE program = "vencord" ->
           LET r == activate_vencord_with_name(file, "omarchy-theme", fail)
           IN  [outcome |-> r.outcome, message |-> r.message, file |-> r.file,
                commands |-> <<>>]
      [] program = "spicetify" ->
           LET r == activate_spicetify_with_scheme(cli_available, "omarchy-theme",
                                                   "default", outs)
           IN  [outcome |-> r.outcome, message |-> r.message, file |-> file,
                commands |-> r.commands]
      [] program = "cava" ->
           [outcome |-> "ok", message |-> activate_omarcava.message, file |-> file,
            commands |-> <<>>]
      [] OTHER ->
           [outcome |-> "failed", message |-> Message("Activation not supported"),
            file |-> file, commands |-> <<>>]

\* ThemeActivator::activate_all, activator.rs:22-48: an Err becomes a failed
\* result; a panic unwinds through the loop
RECURSIVE activate_all(_, _, _, _, _, _)
activate_all(programs, file, fail, cli_available, outs, acc) ==
    IF programs = <<>>
      THEN [outcome |-> "ok", results |-> acc.results, file |-> file,
            commands |-> acc.commands]
      ELSE LET r == activate_program(Head(programs), file, fail, cli_available, outs)
           IN  IF r.outcome = "panic"
                 THEN [outcome |-> "panic", results |-> <<>>, file |-> r.file,
                       commands |-> acc.commands \o r.commands]
                 ELSE activate_all(Tail(programs), r.file, fail, cli_available, outs,
                        [results  |-> Append(acc.results,
                                        ActivationResult(Head(programs),
                                                         r.outcome = "ok", r.message)),
                         commands |-> acc.commands \o r.commands])

NoActivation ==
    [op |-> None, theme |-> None, outcome |-> None, message |-> Message(None),
     results |-> <<>>, repeat |-> FALSE, cli |-> FALSE, outs |-> <<>>,
     before |-> Absent]

TargetIdle ==
    /\ generatedFile = NoNode
    /\ vencordFile = NoNode
    /\ spicetifyLink = NoNode
    /\ settings = Absent
    /\ commands = <<>>

ActIdle == lastAct = NoActivation

InitActivate ==
    /\ generatedFile = NoNode
    /\ vencordFile = NoNode
    /\ spicetifyLink = NoNode
    /\ settings \in SettingsFiles
    /\ commands = <<>>
    /\ lastAct = NoActivation

\* activate_vencord (theme "omarchy-theme") or activate_omarcord (theme
\* "omarcord.theme.css"); repeat records that the call before it activated the
\* same theme and succeeded
ActivateVencord(theme_name, fail) ==
    LET r == activate_vencord_with_name(settings, theme_name, fail)
    IN  /\ settings' = r.file
        /\ commands' = <<>>
        /\ lastAct' = [op |-> "vencord", theme |-> theme_name, outcome |-> r.outcome,
                       message |-> r.message, results |-> <<>>,
                       repeat |-> /\ lastAct.op = "vencord"
                                  /\ lastAct.theme = theme_name
                                  /\ lastAct.outcome = "ok",
                       cli |-> FALSE, outs |-> <<>>, before |-> settings]
        /\ UNCHANGED <<generatedFile, vencordFile, spicetifyLink>>

\* activate_spicetify (activator.rs:206-208) or activate_omarchify
\* (activator.rs:56-58)
SpicetifyThemes == {<<"omarchy-theme", "default">>, <<"text", "Omarchify">>}

ActivateSpicetify(x, theme) ==
    LET r == activate_spicetify_with_scheme(x.cli_available, theme[1], theme[2], x.outs)
    IN  /\ commands' = r.commands
        /\ lastAct' = [op |-> "spicetify", theme |-> theme[1], outcome |-> r.outcome,
                       message |-> r.message, results |-> <<>>, repeat |-> FALSE,
                       cli |-> x.cli_available, outs |-> x.outs, before |-> Absent]
        /\ UNCHANGED <<generatedFile, vencordFile, spicetifyLink, settings>>

\* themes.retain(|t| t.as_str() != Some(theme_name)), activator.rs:324
retain_other(items, theme_name) ==
    LET other(t) == t # theme_name IN SelectSeq(items, other)

deactivate_vencord_Named(file, theme_name, fail) ==
    IF file.kind = "absent"
      THEN [outcome |-> "ok", message |-> Message("Settings file doesn't exist"),
            file |-> file]
    ELSE IF fail = "read"
      THEN [outcome |-> "err", message |-> Message("Failed to read Vencord settings"),
            file |-> file]
    ELSE IF file.kind = "unparsable"
      THEN [outcome |-> "err", message |-> Message("Failed to parse Vencord settings"),
            file |-> file]
    ELSE IF file.root.type # "object"
      THEN [outcome |-> "panic", message |-> Message("cannot access key in JSON array"),
            file |-> file]
    ELSE IF "enabledThemes" \notin DOMAIN file.root.fields
              \/ file.root.fields["enabledThemes"].type # "array"
      THEN [outcome |-> "ok", message |-> Message("Theme disabled successfully"),
            file |-> file]
    ELSE IF fail = "write"
      THEN [outcome |-> "err", message |-> Message("Failed to write Vencord settings"),
            file |-> file]
      ELSE [outcome |-> "ok", message |-> Message("Theme disabled successfully"),
            file |-> SettingsDoc(JObject(WithField(file.root.fields, "enabledThemes",
                         JArray(retain_other(file.root.fields["enabledThemes"].items,
                                             theme_name)))))]

\* ThemeActivator::deactivate_vencord, activator.rs:304-342: the entry removed
\* is "omarchy-theme" (activator.rs:323), whatever theme was activated
deactivate_vencord(file, theme, fail) ==
    deactivate_vencord_Named(file, "omarchy-theme", fail)

\* ThemeActivator::deactivate of the Vencord program, activator.rs:290-293;
\* when it follows a successful activation, theme and before are the theme
\* that was activated and the settings file before that activation
DeactivateVencord(fail) ==
    LET follows == lastAct.op = "vencord" /\ lastAct.outcome = "ok"
        r == deactivate_vencord(settings, IF follows THEN lastAct.theme ELSE None, fail)
    IN  /\ settings' = r.file
        /\ commands' = <<>>
        /\ lastAct' = [op |-> "deactivate",
                       theme |-> IF follows THEN lastAct.theme ELSE None,
                       outcome |-> r.outcome, message |-> r.message, results |-> <<>>,
                       repeat |-> follows, cli |-> FALSE, outs |-> <<>>,
                       before |-> IF follows THEN lastAct.before ELSE settings]
        /\ UNCHANGED <<generatedFile, vencordFile, spicetifyLink>>

\* ThemeActivator::activate_all(&installed), main.rs:275
ActivateAll(programs, fail, x) ==
    LET r == activate_all(programs, settings, fail, x.cli_available, x.outs,
                          [results |-> <<>>, commands |-> <<>>])
    IN  /\ Listed(programs, "vencord") \/ fail = "none"
        /\ Listed(programs, "spicetify") \/ ~ x.cli_available
        /\ settings' = r.file
        /\ commands' = r.commands
        /\ lastAct' = [op |-> "all", theme |-> "omarchy-theme", outcome |-> r.outcome,
                       message |-> Message(None), results |-> r.results,
                       repeat |-> FALSE, cli |-> x.cli_available, outs |-> x.outs,
                       before |-> settings]
        /\ UNCHANGED <<generatedFile, vencordFile, spicetifyLink>>

(***************************************************************************)
(* generator.rs : Generator, generate-missing and regenerate-all           *)
(***************************************************************************)
Themes == {"t1", "t2"}

\* theme_dir.join(output_file) and config.watch_path.join(output_file)
ThemePath(theme, file) == <<"themes", theme, file>>
WatchFile(file) == <<"watch_path", file>>

PaletteOf(fixed, custom) ==
    [fixed  |-> [f \in FixedSlots |-> IF f \in DOMAIN fixed THEN fixed[f] ELSE NoColor],
     custom |-> custom]

Light == Color_new(<<"#","e","f","f","1","f","5">>).value
Dark  == Color_new(<<"4","c","4","f","6","9">>).value

\* theme directories by their colour sources: none; a malformed alacritty.toml
\* only; the alacritty.toml of generator.rs:341-346; a malformed alacritty.toml
\* beside a btop.theme that sets the background
NoSourceDir  == [s \in Sources |-> Absent]
MalformedDir == [NoSourceDir EXCEPT !["Alacritty"] = Malformed]
LightDir == [NoSourceDir EXCEPT !["Alacritty"] =
               Parsable(PaletteOf([background |-> Light, foreground |-> Dark], EmptyMap))]
DarkDir  == [MalformedDir EXCEPT !["Btop"] =
               Parsable(PaletteOf([background |-> Dark], EmptyMap))]
SampleDirs == {NoSourceDir, MalformedDir, LightDir, DarkDir}

\* a file or a directory of a theme directory that was there before any run;
\* its text is no rendering of an embedded template
OldContent == Rendered(<<"original">>, ColorPalette_default)
OldFile == RegularFile(OldContent)
OldDir  == Directory(OldContent)

\* the file system call of one loop iteration that fails, if it is reached
GenFaults == {"none", "render", "write", "remove"}

\* struct GenerationResult, generator.rs:15-20
GenerationResult(program, path, success, message) ==
    [program |-> program.name, output_file |-> path, success |-> success,
     message |-> message]

\* Path::exists on a path of the theme directory
path_exists(node) == node.kind # "none"

generate_for_program_Overwrite(node, theme, palette, program, fail) ==
    LET output_path == ThemePath(theme, program.output_file)
        r == render(program.template, palette, fail)
    IN  IF r.status = "err"
          THEN [node |-> node, log |-> <<>>,
                result |-> GenerationResult(program, output_path, FALSE, "Template error")]
        ELSE IF fail = "write" \/ is_dir(node)
          THEN [node |-> node, log |-> <<>>,
                result |-> GenerationResult(program, output_path, FALSE, "Write error")]
          ELSE [node |-> RegularFile(r.value), log |-> << <<"write", output_path>> >>,
                result |-> GenerationResult(program, output_path, TRUE,
                                            "Generated successfully")]

\* Generator::generate_for_program, generator.rs:212-278
generate_for_program(node, theme, palette, program, fail) ==
    LET output_path == ThemePath(theme, program.output_file)
        r == render(program.template, palette, fail)
    IN  IF path_exists(node)
          THEN [node |-> node, log |-> <<>>,
                result |-> GenerationResult(program, output_path, TRUE,
                                            "File already exists (skipped)")]
        ELSE IF r.status = "err"
          THEN [node |-> node, log |-> <<>>,
                result |-> GenerationResult(program, output_path, FALSE, "Template error")]
        ELSE IF fail = "write"
          THEN [node |-> node, log |-> <<>>,
                result |-> GenerationResult(program, output_path, FALSE, "Write error")]
          ELSE [node |-> RegularFile(r.value), log |-> << <<"write", output_path>> >>,
                result |-> GenerationResult(program, output_path, TRUE,
                                            "Generated successfully")]

\* the deletion of regenerate_all_files, generator.rs:316-320: fs::remove_file
\* fails on a directory, and a failure is only logged
delete_existing(node, theme, program, fail) ==
    IF ~ path_exists(node) THEN [node |-> node, log |-> <<>>]
    ELSE IF fail = "remove" \/ is_dir(node) THEN [node |-> node, log |-> <<>>]
    ELSE [node |-> NoNode,
          log |-> << <<"remove", ThemePath(theme, program.output_file)>> >>]

\* one iteration of the loop of regenerate_all_files, generator.rs:312-324
regenerate_for_program(node, theme, palette, program, fail) ==
    LET d == delete_existing(node, theme, program, fail)
        g == generate_for_program(d.node, theme, palette, program, fail)
    IN  [node |-> g.node, log |-> d.log \o g.log, result |-> g.result]

GenIdle ==
    /\ config = Config_default
    /\ themes = [t \in Themes |-> [sources |-> NoSourceDir,
                                   files |-> [f \in OutputFiles |-> NoNode]]]
    /\ genPc = "idle"
    /\ genMode = None
    /\ genTheme = None
    /\ genIdx = 1
    /\ genPalette = ColorPalette_default
    /\ results = <<>>
    /\ genResult = NotCalled
    /\ genLog = <<>>
    /\ attempted = <<>>
    /\ genAbort = None
    /\ firstRun = TRUE

\* the run has not started; theme t1 holds any sources and any old files at
\* the outputs of the configured programs
InitGenerate ==
    /\ config \in {c \in Configs : c.auto_activate /\ c.create_backups /\ c.auto_symlink}
    /\ themes \in [Themes -> [sources : SampleDirs,
                              files : [OutputFiles -> {NoNode, OldFile, OldDir}]]]
    /\ themes["t2"] = [sources |-> DarkDir, files |-> [f \in OutputFiles |-> NoNode]]
    /\ \A f \in OutputFiles :
         (\A i \in DOMAIN config.programs : config.programs[i].output_file # f)
            => themes["t1"].files[f] = NoNode
    /\ genPc = "idle"
    /\ genMode = None
    /\ genTheme = None
    /\ genIdx = 1
    /\ genPalette = ColorPalette_default
    /\ results = <<>>
    /\ genResult = NotCalled
    /\ genLog = <<>>
    /\ attempted = <<>>
    /\ genAbort = None
    /\ firstRun = TRUE

extracted_Fallback(theme) ==
    LET r == extract_colors(themes[theme].sources,
                            parse_color_priority(config.color_priority))
    IN  IF r.status = "ok" THEN r
        ELSE Ok([palette |-> ColorPalette_default, source |-> "Alacritty"])

\* the palette of the run
extracted(theme) ==
    extract_colors(themes[theme].sources, parse_color_priority(config.color_priority))

\* generate_missing_files, regenerate_all_files or generate_and_deploy is
\* entered and extract_colors returns a palette, generator.rs:40-46, 62-66, 303-309
GenStart(mode, theme) ==
    /\ genPc \in {"idle", "done"}
    /\ extracted(theme).status = "ok"
    /\ genPc' = "loop"
    /\ genMode' = mode
    /\ genTheme' = theme
    /\ genIdx' = 1
    /\ genPalette' = extracted(theme).value.palette
    /\ results' = <<>>
    /\ genResult' = NotCalled
    /\ genLog' = <<>>
    /\ attempted' = <<>>
    /\ genAbort' = None
    /\ firstRun' = (genPc = "idle")
    /\ UNCHANGED <<config, themes>>

\* the run is entered and extract_colors fails: the error is returned with
\* context, generator.rs:41-42, 63-64, 304-305
GenNoColorSource(mode, theme) ==
    /\ genPc \in {"idle", "done"}
    /\ extracted(theme).status = "err"
    /\ genPc' = "done"
    /\ genMode' = mode
    /\ genTheme' = theme
    /\ genIdx' = 1
    /\ genPalette' = ColorPalette_default
    /\ results' = <<>>
    /\ genResult' = Err(extracted(theme).value)
    /\ genLog' = <<>>
    /\ attempted' = <<>>
    /\ genAbort' = "extract"
    /\ firstRun' = (genPc = "idle")
    /\ UNCHANGED <<config, themes>>

\* the program of the current loop iteration
CurrentProgram == enabled_programs(config)[genIdx]

\* one iteration of generate_missing_files (generator.rs:49-52) or of
\* regenerate_all_files (generator.rs:312-324)
GenerateStep(fail) ==
    /\ genPc = "loop"
    /\ genMode \in {"missing", "regenerate"}
    /\ genIdx <= Len(enabled_programs(config))
    /\ LET program == CurrentProgram
           node == themes[genTheme].files[program.output_file]
           r == IF genMode = "missing"
                  THEN generate_for_program(node, genTheme, genPalette, program, fail)
                  ELSE regenerate_for_program(node, genTheme, genPalette, program, fail)
       IN  /\ themes' = [themes EXCEPT ![genTheme].files[program.output_file] = r.node]
           /\ results' = Append(results, r.result)
           /\ genLog' = genLog \o r.log
           /\ attempted' = Append(attempted, program.name)
    /\ genIdx' = genIdx + 1
    /\ UNCHANGED <<config, genPc, genMode, genTheme, genPalette, genResult, genAbort,
                   firstRun>>

\* Ok(results), generator.rs:54 and generator.rs:326
GenerateReturn ==
    /\ genPc = "loop"
    /\ genMode \in {"missing", "regenerate"}
    /\ genIdx > Len(enabled_programs(config))
    /\ genPc' = "done"
    /\ genResult' = Ok(results)
    /\ UNCHANGED <<config, themes, genMode, genTheme, genIdx, genPalette, results, genLog,
                   attempted, genAbort, firstRun>>

(***************************************************************************)
(* generator.rs : Generator::generate_and_deploy                           *)
(***************************************************************************)
\* Ok(()) of generate_and_deploy, generator.rs:90
Unit == <<>>

\* self.config.generated_themes_dir.join(&program_config.output_file)
GeneratedPath(file) == <<"generated_themes_dir", file>>
\* installed.theme_dir.join(&program_config.output_file) of Vencord
VencordPath(file) == <<"vencord", "themes", file>>
\* installed.theme_dir.join("text").join("color.ini") of Spicetify
SpicetifyPath == <<"spicetify", "Themes", "text", "color.ini">>

\* format!("omarcord.theme.css.{}", timestamp), generator.rs:122-123
VencordBackupName(ts) == <<"omarcord.theme.css", ts>>

\* the call of deploy_omarcord that fails, if it is reached; "read" and
\* "write" are the faults of the activation
OmarcordFaults ==
    {"none", "render", "write_generated", "backup_dir", "copy", "write_target",
     "read", "write"}

\* the fault handed on to the activation
act_fault(fail) == IF fail \in ActFaults THEN fail ELSE "none"

\* what one deploy step leaves behind.  status: "ok" is Ok(()), "err" is the
\* Err that ? returns, "panic" is a panic; abort names the failed stage
Deployed(status, abort, gen, vencord, bk, sfile, log) ==
    [status |-> status, abort |-> abort, generated |-> gen, vencord |-> vencord,
     backups |-> bk, settings |-> sfile, log |-> log]

\* the backup of deploy_omarcord, generator.rs:116-125: fs::copy replaces a
\* file of the same name, fails on a directory, and its failure is dropped
\* by .ok()
copy_to_backup(vfile, bk, ts, fail) ==
    LET name == VencordBackupName(ts)
    IN  IF fail = "copy" \/ is_dir(vfile)
             \/ (name \in DOMAIN bk /\ bk[name].kind = "dir")
          THEN bk
          ELSE [k \in DOMAIN bk \cup {name} |->
                  IF k = name THEN RegularFile(vfile.content) ELSE bk[k]]

\* Generator::deploy_omarcord, generator.rs:94-142
deploy_omarcord(gen, vfile, bk, sfile, cfg, palette, program, ts, fail) ==
    LET r     == render(program.template, palette, fail)
        wants == path_exists(vfile) /\ cfg.create_backups
        bk2   == IF wants THEN copy_to_backup(vfile, bk, ts, fail) ELSE bk
        log1  == << <<"write", GeneratedPath(program.output_file)>> >>
        log2  == IF bk2 # bk THEN Append(log1, <<"backup", VencordBackupName(ts)>>)
                             ELSE log1
        log3  == Append(log2, <<"write", VencordPath(program.output_file)>>)
        a     == activate_vencord_with_name(sfile, "omarcord.theme.css", act_fault(fail))
        log4  == Append(log3, <<"activate", "omarcord">>)
    IN  IF r.status = "err"
          THEN Deployed("err", "render", gen, vfile, bk, sfile, <<>>)
        ELSE IF fail = "write_generated" \/ is_dir(gen)
          THEN Deployed("err", "write", gen, vfile, bk, sfile, <<>>)
        ELSE IF wants /\ fail = "backup_dir"
          THEN Deployed("err", "write", RegularFile(r.value), vfile, bk, sfile, log1)
        ELSE IF fail = "write_target" \/ is_dir(vfile)
          THEN Deployed("err", "write", RegularFile(r.value), vfile, bk2, sfile, log2)
        ELSE IF ~ cfg.auto_activate
          THEN Deployed("ok", None, RegularFile(r.value), RegularFile(r.value), bk2,
                        sfile, log3)
        ELSE IF a.outcome = "ok"
          THEN Deployed("ok", None, RegularFile(r.value), RegularFile(r.value), bk2,
                        a.file, log4)
        ELSE IF a.outcome = "panic"
          THEN Deployed("panic", "panic", RegularFile(r.value), RegularFile(r.value),
                        bk2, a.file, log4)
          ELSE Deployed("err", "activate", RegularFile(r.value), RegularFile(r.value),
                        bk2, a.file, log4)

\* the base color.ini of the Omarchify repository, generator.rs:153-163
BaseFiles == {"absent", "present"}
MinimalBase == "; Omarchify color schemes"
RepoBase    == "Omarchify/text/color.ini"
base_content(base) == IF base = "present" THEN RepoBase ELSE MinimalBase

\* format!("{}\n{}", base_content, omarchify_section), generator.rs:170
Combined(base, section) == [base |-> base_content(base), section |-> section]

\* the call of deploy_omarchify that fails, if it is reached
OmarchifyFaults ==
    {"none", "base_read", "render", "write_theme", "mkdir", "remove", "symlink"}

symlink_source_Theme(theme, output_file) == ThemePath(theme, output_file)

\* self.config.watch_path.join(&program_config.output_file), generator.rs:187
symlink_source(theme, output_file) == WatchFile(output_file)

\* what deploy_omarchify leaves behind
Linked(status, abort, tfile, link, cmds, log) ==
    [status |-> status, abort |-> abort, file |-> tfile, link |-> link,
     commands |-> cmds, log |-> log]

\* Generator::deploy_omarchify, generator.rs:145-209: the section is always
\* rendered from "omarchify-colors", whatever program_config.template says;
\* fs::remove_file fails on a directory and its failure is dropped by .ok(),
\* after which symlink finds the path occupied and fails
deploy_omarchify(tfile, link, cmds, cfg, theme, palette, program, base, fail, x) ==
    LET r       == render(<<"omarchify-colors">>, palette, fail)
        written == RegularFile(Combined(base, r.value))
        log1    == << <<"write", ThemePath(theme, program.output_file)>> >>
        removed == IF link.kind = "none" \/ fail = "remove" \/ is_dir(link)
                     THEN link ELSE NoNode
        log2    == IF removed # link THEN Append(log1, <<"remove", SpicetifyPath>>)
                                     ELSE log1
        made    == Symlink(symlink_source(theme, program.output_file))
        link2   == IF cfg.auto_symlink THEN made ELSE link
        log3    == IF cfg.auto_symlink THEN Append(log2, <<"symlink", SpicetifyPath>>)
                                       ELSE log1
        a       == activate_spicetify_with_scheme(x.cli_available, "text", "Omarchify",
                                                  x.outs)
        log4    == Append(log3, <<"activate", "omarchify">>)
    IN  IF base = "present" /\ fail = "base_read"
          THEN Linked("err", "read", tfile, link, cmds, <<>>)
        ELSE IF r.status = "err"
          THEN Linked("err", "render", tfile, link, cmds, <<>>)
        ELSE IF fail = "write_theme" \/ is_dir(tfile)
          THEN Linked("err", "write", tfile, link, cmds, <<>>)
        ELSE IF cfg.auto_symlink /\ fail = "mkdir"
          THEN Linked("err", "link", written, link, cmds, log1)
        ELSE IF cfg.auto_symlink /\ (removed.kind # "none" \/ fail = "symlink")
          THEN Linked("err", "link", written, removed, cmds, log2)
        ELSE IF ~ cfg.auto_activate
          THEN Linked("ok", None, written, link2, cmds, log3)
        ELSE IF a.outcome = "err"
          THEN Linked("err", "activate", written, link2, a.commands, log4)
          ELSE Linked("ok", None, written, link2, a.commands, log4)

\* the rest of the linker's variables, which a deployment leaves alone
linkRest == <<dest, generated, clock, create_backups, lastCall, lastRemove>>

\* the end of a loop iteration of generate_and_deploy: Ok(()) goes on to the
\* next program, an Err is returned by ? (generator.rs:83-84), a panic unwinds
DeployEnds(status, abort, name) ==
    /\ attempted' = Append(attempted, name)
    /\ IF status = "ok"
         THEN /\ genIdx' = genIdx + 1
              /\ UNCHANGED <<genPc, genResult, genAbort>>
         ELSE /\ genPc' = "done"
              /\ genResult' = [status |-> status, value |-> abort]
              /\ genAbort' = abort
              /\ UNCHANGED genIdx
    /\ UNCHANGED <<config, genMode, genTheme, genPalette, results, firstRun>>

\* an iteration of generate_and_deploy is about to run
DeployLoop ==
    /\ genPc = "loop"
    /\ genMode = "deploy"
    /\ genIdx <= Len(enabled_programs(config))

\* ProgramDetector::detect_by_config_name returns None: the program is
\* skipped, generator.rs:71-76
DeploySkip ==
    /\ DeployLoop
    /\ genIdx' = genIdx + 1
    /\ UNCHANGED <<config, themes, genPc, genMode, genTheme, genPalette, results,
                   genResult, genLog, attempted, genAbort, firstRun>>
    /\ UNCHANGED <<targetVars, linkVars>>

\* the program is detected and is neither omarcord nor omarchify: a warning
\* is logged, generator.rs:85
DeployUnknown ==
    /\ DeployLoop
    /\ CurrentProgram.name \notin {"omarcord", "omarchify"}
    /\ genIdx' = genIdx + 1
    /\ genLog' = Append(genLog, <<"warn", CurrentProgram.name>>)
    /\ UNCHANGED <<config, themes, genPc, genMode, genTheme, genPalette, results,
                   genResult, attempted, genAbort, firstRun>>
    /\ UNCHANGED <<targetVars, linkVars>>

\* Vencord is detected and omarcord is deployed, generator.rs:83
DeployOmarcord(fail) ==
    /\ DeployLoop
    /\ CurrentProgram.name = "omarcord"
    /\ LET d == deploy_omarcord(generatedFile, vencordFile, backups, settings, config,
                                genPalette, CurrentProgram, clock, fail)
       IN  /\ generatedFile' = d.generated
           /\ vencordFile' = d.vencord
           /\ backups' = d.backups
           /\ settings' = d.settings
           /\ genLog' = genLog \o d.log
           /\ DeployEnds(d.status, d.abort, "omarcord")
    /\ UNCHANGED <<themes, spicetifyLink, commands, linkRest>>

\* Spicetify is detected and omarchify is deployed, generator.rs:84
DeployOmarchify(base, fail, x) ==
    /\ DeployLoop
    /\ CurrentProgram.name = "omarchify"
    /\ LET program == CurrentProgram
           d == deploy_omarchify(themes[genTheme].files[program.output_file],
                                 spicetifyLink, commands, config, genTheme, genPalette,
                                 program, base, fail, x)
       IN  /\ themes' = [themes EXCEPT ![genTheme].files[program.output_file] = d.file]
           /\ spicetifyLink' = d.link
           /\ commands' = d.commands
           /\ genLog' = genLog \o d.log
           /\ DeployEnds(d.status, d.abort, "omarchify")
    /\ UNCHANGED <<generatedFile, vencordFile, settings, linkVars>>

\* Ok(()), generator.rs:89-90
DeployReturn ==
    /\ genPc = "loop"
    /\ genMode = "deploy"
    /\ genIdx > Len(enabled_programs(config))
    /\ genPc' = "done"
    /\ genResult' = Ok(Unit)
    /\ UNCHANGED <<config, themes, genMode, genTheme, genIdx, genPalette, results, genLog,
                   attempted, genAbort, firstRun>>
    /\ UNCHANGED <<targetVars, linkVars>>

\* whether a program is configured and enabled
Enabled(cfg, name) ==
    \E i \in DOMAIN enabled_programs(cfg) : enabled_programs(cfg)[i].name = name

\* a stale link into a theme directory, left by hand or by an older version
StaleLink == Symlink(ThemePath("t1", "color.ini"))

\* settings files a deployment can meet
DeploySettings ==
    {Absent, Unparsable, SettingsDoc(JArray(<<>>)),
     SettingsDoc(JObject([enabledThemes |-> JArray(<<"other-theme.css">>)]))}

\* the configured programs of a deployment: the default list, in both
\* orders, with omarcord disabled, and with a program generate_and_deploy does
\* not know in the place of either; omarcord alone; no program
DeployLists ==
    {<<Omarcord, Omarchify>>, <<Omarchify, Omarcord>>,
     <<[Omarcord EXCEPT !.enabled = FALSE], Omarchify>>,
     <<Omarcava, Omarchify>>, <<Omarcord, Omarcava>>, <<Omarcord>>, <<>>}

\* the runs of the spicetify CLI a deployment can meet: no CLI; every command
\* succeeds; the second exits with failure; the first cannot be run
DeployRuns ==
    {x \in SpicetifyRuns :
        \/ ~ x.cli_available
        \/ x.outs \in {<<"success", "success", "success">>,
                        <<"success", "failure", "success">>,
                        <<"spawn", "success", "success">>}}

\* the caller runs the generator once, and once more after that run
MayStart == genPc = "idle" \/ (genPc = "done" /\ firstRun)

\* before the first run: the theme directories hold no output file yet; the
\* files of a program that is not deployed are absent
InitDeploy ==
    /\ config \in {c \in Configs : c.programs \in DeployLists}
    /\ themes \in [Themes -> [sources : {NoSourceDir, LightDir, DarkDir},
                              files : {[f \in OutputFiles |-> NoNode]}]]
    /\ themes["t1"].sources # DarkDir
    /\ themes["t2"].sources = DarkDir
    /\ genPc = "idle"
    /\ genMode = None
    /\ genTheme = None
    /\ genIdx = 1
    /\ genPalette = ColorPalette_default
    /\ results = <<>>
    /\ genResult = NotCalled
    /\ genLog = <<>>
    /\ attempted = <<>>
    /\ genAbort = None
    /\ firstRun = TRUE
    /\ generatedFile = NoNode
    /\ vencordFile \in {NoNode, OldFile}
    /\ vencordFile # NoNode => Enabled(config, "omarcord")
    /\ spicetifyLink \in {NoNode, StaleLink, OldDir}
    /\ spicetifyLink # NoNode => Enabled(config, "omarchify") /\ config.auto_symlink
    /\ settings \in DeploySettings
    /\ settings # Absent => Enabled(config, "omarcord") /\ config.auto_activate
    /\ config.create_backups
    /\ ~ Enabled(config, "omarchify") => config.auto_symlink
    /\ commands = <<>>

(***************************************************************************)
(* generator.rs : generate_and_deploy as one call                          *)
(***************************************************************************)
\* the files and the command log a deployment works on
Files(th, gen, vfile, link, sfile, bk, cmds) ==
    [themes |-> th, generated |-> gen, vencord |-> vfile, link |-> link,
     settings |-> sfile, backups |-> bk, commands |-> cmds]

CurrentFiles ==
    Files(themes, generatedFile, vencordFile, spicetifyLink, settings, backups, commands)

\* what a call meets outside these files: the programs the detector finds,
\* the base color.ini, the runs of the spicetify CLI, the call that fails
Environment(installed, base, x, fail) ==
    [installed |-> installed, base |-> base, x |-> x, fail |-> fail]

\* the for loop of generate_and_deploy from the i-th enabled program on,
\* generator.rs:69-90
RECURSIVE deploy_from(_, _, _, _, _, _, _)
deploy_from(i, fs, cfg, theme, palette, env, ts) ==
    LET programs == enabled_programs(cfg)
        program  == programs[i]
        c == deploy_omarcord(fs.generated, fs.vencord, fs.backups, fs.settings, cfg,
                             palette, program, ts, env.fail)
        fsc == [fs EXCEPT !.generated = c.generated, !.vencord = c.vencord,
                          !.backups = c.backups, !.settings = c.settings]
        h == deploy_omarchify(fs.themes[theme].files[program.output_file], fs.link,
                              fs.commands, cfg, theme, palette, program, env.base,
                              env.fail, env.x)
        fsh == [fs EXCEPT !.themes[theme].files[program.output_file] = h.file,
                          !.link = h.link, !.commands = h.commands]
    IN  IF i > Len(programs)
          THEN [status |-> "ok", value |-> Unit, files |-> fs]
        ELSE IF program.name \notin env.installed
          THEN deploy_from(i + 1, fs, cfg, theme, palette, env, ts)
        ELSE IF program.name = "omarcord"
          THEN IF c.status = "ok"
                 THEN deploy_from(i + 1, fsc, cfg, theme, palette, env, ts)
                 ELSE [status |-> c.status, value |-> c.abort, files |-> fsc]
        ELSE IF program.name = "omarchify"
          THEN IF h.status = "ok"
                 THEN deploy_from(i + 1, fsh, cfg, theme, palette, env, ts)
                 ELSE [status |-> h.status, value |-> h.abort, files |-> fsh]
          ELSE deploy_from(i + 1, fs, cfg, theme, palette, env, ts)

\* Generator::generate_and_deploy, generator.rs:58-91
generate_and_deploy(fs, cfg, theme, env, ts) ==
    LET e == extract_colors(fs.themes[theme].sources,
                            parse_color_priority(cfg.color_priority))
    IN  IF e.status = "err"
          THEN [status |-> "err", value |-> "extract", files |-> fs]
          ELSE deploy_from(1, fs, cfg, theme, e.value.palette, env, ts)

\* the files become what a call left
Leaves(fs) ==
    /\ themes' = fs.themes
    /\ generatedFile' = fs.generated
    /\ vencordFile' = fs.vencord
    /\ spicetifyLink' = fs.link
    /\ settings' = fs.settings
    /\ backups' = fs.backups
    /\ commands' = fs.commands

\* the record of a finished call
Run(theme, env, r, before) ==
    [theme |-> theme, env |-> env, status |-> r.status, abort |-> r.value,
     before |-> before, after |-> r.files]

\* the rest of the generator's variables, which a whole call leaves alone
genRest == <<config, genPc, genMode, genTheme, genIdx, genPalette, results, genResult,
             genLog, attempted, genAbort, firstRun>>

\* the caller deploys a theme, and once more after that call has returned
GenerateAndDeploy(theme, env) ==
    /\ runs = <<>> \/ Len(runs) = 1
    /\ LET r == generate_and_deploy(CurrentFiles, config, theme, env, clock)
       IN  /\ Leaves(r.files)
           /\ runs' = Append(runs, Run(theme, env, r, CurrentFiles))
    /\ UNCHANGED <<genRest, linkRest, watchRest>>

\* what the two calls meet
RedeployEnvs ==
    {Environment(i, b, [cli_available |-> TRUE, outs |-> <<"success", "success", "success">>], f) :
        i \in SUBSET {"omarcord", "omarchify"}, b \in BaseFiles, f \in {"none", "copy"}}

\* before the first call: both theme directories have a colour source and no
\* output file; old files, links and directories stand at the targets
InitRedeploy ==
    /\ config \in {c \in Configs : c.programs = <<Omarcord, Omarchify>> /\ c.auto_symlink}
    /\ themes = [t \in Themes |->
                   [sources |-> IF t = "t1" THEN LightDir ELSE DarkDir,
                    files |-> [f \in OutputFiles |-> NoNode]]]
    /\ genPc = "idle"
    /\ genMode = None
    /\ genTheme = None
    /\ genIdx = 1
    /\ genPalette = ColorPalette_default
    /\ results = <<>>
    /\ genResult = NotCalled
    /\ genLog = <<>>
    /\ attempted = <<>>
    /\ genAbort = None
    /\ firstRun = TRUE
    /\ generatedFile = NoNode
    /\ vencordFile \in {NoNode, OldFile}
    /\ spicetifyLink \in {NoNode, OldFile, OldDir}
    /\ settings \in {Absent, Unparsable, SettingsDoc(JArray(<<>>))}
    /\ commands = <<>>
    /\ dest = [p \in Programs |-> NoNode]
    /\ generated = {}
    /\ backups = EmptyMap
    /\ clock = 0
    /\ create_backups = TRUE
    /\ lastCall = NoCall(dest, backups)
    /\ lastRemove = NoRemoval
    /\ runs = <<>>
    /\ watchLink = NoNode
    /\ queue = <<>>
    /\ watchPc = "idle"
    /\ channel = "open"
    /\ handled = <<>>
    /\ pending = <<>>
    /\ emitted = <<>>
    /\ current = NoHandling
    /\ watchResult = NotCalled

(***************************************************************************)
(* watcher.rs : ThemeWatcher                                               *)
(***************************************************************************)
\* self.watch_path and self.watch_path.parent(): the theme directories stand
\* next to the link
watch_dir  == <<"themes">>
watch_path == watch_dir \o <<"current">>

\* Path::parent
parent(path) == SubSeq(path, 1, Len(path) - 1)

\* targets of the watch link: the absolute path of a theme directory, or its
\* name relative to the directory of the link
AbsTarget(name) == [relative |-> FALSE, path |-> watch_dir \o <<name>>]
RelTarget(name) == [relative |-> TRUE, path |-> <<name>>]

\* Path::exists of a directory path: the theme directories exist
dir_exists(path) == \E t \in Themes : path = watch_dir \o <<t>>

\* the theme whose directory the path is
theme_of(path) == CHOOSE t \in Themes : path = watch_dir \o <<t>>

resolve_Plain(target) == target.path

\* the resolution of the link's target, watcher.rs:127-135
resolve(target) ==
    IF target.relative THEN watch_dir \o target.path ELSE target.path

watch_path_exists_Any(link) == link.kind # "none"

\* self.watch_path.exists(), which follows the link, watcher.rs:42, 155
watch_path_exists(link) ==
    \/ link.kind = "dir"
    \/ link.kind = "symlink" /\ dir_exists(resolve(link.target))

\* events of notify: their kind and their one path
EventKinds == {"Create", "Modify", "Remove", "Access"}
Event(kind, path) == [kind |-> kind, path |-> path]

is_relevant_event_Any(event) == TRUE

\* ThemeWatcher::is_relevant_event, watcher.rs:104-118
is_relevant_event(event) ==
    /\ event.path = watch_path \/ parent(event.path) = parent(watch_path)
    /\ event.kind \in {"Create", "Modify", "Remove"}

recv_Latest(q) == [event |-> q[Len(q)], rest |-> <<>>]

\* rx.recv() on a channel that holds events, watcher.rs:80
recv(q) == [event |-> Head(q), rest |-> Tail(q)]

\* the entry of a run of handle_theme_change: the event that caused it (0 for
\* the initial run and for run_once), the directory it resolved, whether
\* generate_and_deploy was called, what the handler returned, and whether a
\* file or the command log changed
Handled(cause, dir, deployed, status, value, changed) ==
    [cause |-> cause, theme_dir |-> dir, deployed |-> deployed, status |-> status,
     value |-> value, changed |-> changed]

\* where the caller of a finished handler run goes on: run_once returns the
\* handler's result (watcher.rs:159); watch logs an Err, sets the watcher up
\* after the initial run (watcher.rs:42-51) and receives again after an
\* event (watcher.rs:88-90); a panic unwinds through either
AfterHandler(status, value) ==
    IF status = "panic"
      THEN watchPc' = "crashed" /\ UNCHANGED watchResult
    ELSE IF current.mode = "once"
      THEN watchPc' = "returned" /\ watchResult' = [status |-> status, value |-> value]
    ELSE IF current.cause = 0
      THEN watchPc' = "setup" /\ UNCHANGED watchResult
      ELSE watchPc' = "recv" /\ UNCHANGED watchResult

\* handle_theme_change up to the call of generate_and_deploy,
\* watcher.rs:121-145: the link is read now
HandleStart ==
    LET dir == resolve(watchLink.target)
    IN  IF watchLink.kind # "symlink"
          THEN /\ handled' = Append(handled,
                      Handled(current.cause, <<>>, FALSE, "err", "read_link", FALSE))
               /\ AfterHandler("err", "read_link")
               /\ UNCHANGED current
        ELSE IF ~ dir_exists(dir)
          THEN /\ handled' = Append(handled,
                      Handled(current.cause, dir, FALSE, "ok", Unit, FALSE))
               /\ AfterHandler("ok", Unit)
               /\ UNCHANGED current
          ELSE /\ watchPc' = "handling"
               /\ current' = [current EXCEPT !.theme_dir = dir]
               /\ UNCHANGED <<handled, watchResult>>

\* the watch link points at a directory that exists
LinkResolves ==
    /\ watchLink.kind = "symlink"
    /\ \E t \in Themes :
          watchLink.target \in {AbsTarget(t), RelTarget(t)}

\* ThemeWatcher::watch is called, watcher.rs:27-48: the handler runs if the
\* watch path exists
Watch ==
    /\ watchPc = "idle"
    /\ current' = [mode |-> "watch", cause |-> 0, theme_dir |-> <<>>,
                   existed |-> watchLink.kind = "dir" \/ LinkResolves]
    /\ IF watch_path_exists(watchLink)
         THEN /\ watchPc' = "initial"
              /\ UNCHANGED <<handled, watchResult>>
         ELSE /\ watchPc' = "setup"
              /\ UNCHANGED <<handled, watchResult>>
    /\ UNCHANGED <<runs, watchLink, queue, channel, pending, emitted>>
    /\ UNCHANGED <<genVars, targetVars, linkVars>>

\* ThemeWatcher::run_once is called, watcher.rs:152-160
RunOnce ==
    /\ watchPc = "idle"
    /\ current' = [mode |-> "once", cause |-> 0, theme_dir |-> <<>>,
                   existed |-> watchLink.kind = "dir" \/ LinkResolves]
    /\ IF watch_path_exists(watchLink)
         THEN /\ watchPc' = "initial"
              /\ UNCHANGED <<handled, watchResult>>
         ELSE /\ watchPc' = "returned"
              /\ watchResult' = Err("Watch path doesn't exist")
              /\ UNCHANGED handled
    /\ UNCHANGED <<runs, watchLink, queue, channel, pending, emitted>>
    /\ UNCHANGED <<genVars, targetVars, linkVars>>

\* the handler run of the start, or the one that follows the settle delay of
\* an event (watcher.rs:43, 86-88, 159), reads the link
ReadLink ==
    /\ watchPc \in {"initial", "settle"}
    /\ HandleStart
    /\ UNCHANGED <<runs, watchLink, queue, channel, pending, emitted>>
    /\ UNCHANGED <<genVars, targetVars, linkVars>>

\* self.generator.generate_and_deploy(&theme_dir)?, watcher.rs:146-148
Deploy(env) ==
    /\ watchPc = "handling"
    /\ LET r == generate_and_deploy(CurrentFiles, config, theme_of(current.theme_dir),
                                    env, clock)
       IN  /\ Leaves(r.files)
           /\ handled' = Append(handled,
                  Handled(current.cause, current.theme_dir, TRUE, r.status, r.value,
                          r.files # CurrentFiles))
           /\ AfterHandler(r.status, r.value)
    /\ UNCHANGED <<runs, watchLink, queue, channel, pending, emitted, current>>
    /\ UNCHANGED <<genRest, linkRest>>

\* the channel and the watcher of the parent directory are set up,
\* watcher.rs:51-74; either fails and watch returns the error
SetUp(ok) ==
    /\ watchPc = "setup"
    /\ IF ok THEN watchPc' = "recv" /\ UNCHANGED watchResult
             ELSE watchPc' = "returned" /\ watchResult' = Err("Failed to watch directory")
    /\ UNCHANGED <<runs, watchLink, queue, channel, handled, pending, emitted, current>>
    /\ UNCHANGED <<genVars, targetVars, linkVars>>

\* rx.recv() returns an event, watcher.rs:80-92: a relevant one is followed
\* by the settle delay and the handler, another one by the next recv
Receive ==
    /\ watchPc = "recv"
    /\ queue # <<>>
    /\ LET got == recv(queue)
       IN  /\ queue' = got.rest
           /\ IF is_relevant_event(got.event)
                THEN /\ watchPc' = "settle"
                     /\ current' = [current EXCEPT !.cause = Len(emitted) - Len(got.rest),
                                                   !.theme_dir = <<>>]
                ELSE UNCHANGED <<watchPc, current>>
    /\ UNCHANGED <<runs, watchLink, channel, handled, pending, emitted, watchResult>>
    /\ UNCHANGED <<genVars, targetVars, linkVars>>

\* rx.recv() returns Err: the channel is empty and its sender is gone; the
\* loop ends and watch returns Ok(()), watcher.rs:93-100
ReceiveError ==
    /\ watchPc = "recv"
    /\ queue = <<>>
    /\ channel = "lost"
    /\ watchPc' = "returned"
    /\ watchResult' = Ok(Unit)
    /\ UNCHANGED <<runs, watchLink, queue, channel, handled, pending, emitted, current>>
    /\ UNCHANGED <<genVars, targetVars, linkVars>>

\* the watcher is registered (the loop has been entered) and its channel is
\* open
Watching ==
    /\ channel = "open"
    /\ watchPc = "recv" \/ (watchPc \in {"settle", "handling"} /\ current.cause > 0)

\* the events one repointing of the link sends: a rename over the link; an
\* access, then the removal of the link and its creation
RepointEvents ==
    {<<Event("Modify", watch_path)>>,
     <<Event("Access", watch_path), Event("Remove", watch_path),
       Event("Create", watch_path)>>}

\* the link is pointed at its next target while the directory is watched;
\* the callback sends the events, watcher.rs:53-60
Repoint(events) ==
    /\ Watching
    /\ pending # <<>>
    /\ watchLink' = Head(pending)
    /\ pending' = Tail(pending)
    /\ queue' = queue \o events
    /\ emitted' = emitted \o events
    /\ UNCHANGED <<runs, watchPc, channel, handled, current, watchResult>>
    /\ UNCHANGED <<genVars, targetVars, linkVars>>

\* something else happens in the watched directory before the link is
\* pointed anywhere
Touch(event) ==
    /\ watchPc = "recv"
    /\ channel = "open"
    /\ emitted = <<>>
    /\ queue' = Append(queue, event)
    /\ emitted' = Append(emitted, event)
    /\ UNCHANGED <<runs, watchLink, watchPc, channel, handled, pending, current,
                   watchResult>>
    /\ UNCHANGED <<genVars, targetVars, linkVars>>

\* the sender of the channel is dropped
ChannelLost ==
    /\ Watching
    /\ channel' = "lost"
    /\ UNCHANGED <<runs, watchLink, queue, watchPc, handled, pending, emitted, current,
                   watchResult>>
    /\ UNCHANGED <<genVars, targetVars, linkVars>>

\* what the watch link can be: missing, a link to a theme directory by its
\* absolute or relative path, a link to a directory that does not exist, a
\* directory
WatchLinks ==
    {NoNode, Symlink(AbsTarget("t1")), Symlink(RelTarget("t2")),
     Symlink(RelTarget("gone")), OldDir}

\* the repointings to come: none, one, or two
RepointPlans ==
    {<<>>} \cup {<<a>> : a \in WatchLinks \ {OldDir}}
           \cup {<<a, b>> : a \in WatchLinks \ {NoNode, OldDir},
                             b \in WatchLinks \ {NoNode, OldDir}}

\* what a deployment of the watcher meets: both programs installed, no
\* spicetify CLI, and one failing call or none
WatchEnvs ==
    {Environment({"omarcord", "omarchify"}, "absent",
                 [cli_available |-> FALSE, outs |-> <<"success", "success", "success">>], f) :
        f \in {"none", "render"}}

\* before watch or run_once is called
InitWatch ==
    /\ config = Config_default
    /\ themes \in [Themes -> [sources : {NoSourceDir, LightDir, DarkDir},
                              files : {[f \in OutputFiles |-> NoNode]}]]
    /\ themes["t1"].sources # DarkDir
    /\ themes["t2"].sources = DarkDir
    /\ genPc = "idle"
    /\ genMode = None
    /\ genTheme = None
    /\ genIdx = 1
    /\ genPalette = ColorPalette_default
    /\ results = <<>>
    /\ genResult = NotCalled
    /\ genLog = <<>>
    /\ attempted = <<>>
    /\ genAbort = None
    /\ firstRun = TRUE
    /\ generatedFile = NoNode
    /\ vencordFile = NoNode
    /\ spicetifyLink = NoNode
    /\ settings \in {Absent, Unparsable, SettingsDoc(JArray(<<>>))}
    /\ commands = <<>>
    /\ runs = <<>>
    /\ watchLink \in WatchLinks
    /\ queue = <<>>
    /\ watchPc = "idle"
    /\ channel = "open"
    /\ handled = <<>>
    /\ pending \in RepointPlans
    /\ emitted = <<>>
    /\ current = NoHandling
    /\ watchResult = NotCalled

(***************************************************************************)
(* Specifications                                                          *)
(***************************************************************************)
WatchIdle ==
    /\ runs = <<>>
    /\ watchLink = NoNode
    /\ queue = <<>>
    /\ watchPc = "idle"
    /\ channel = "open"
    /\ handled = <<>>
    /\ pending = <<>>
    /\ emitted = <<>>
    /\ current = NoHandling
    /\ watchResult = NotCalled

ColorIdle ==
    /\ colorInput = <<>>
    /\ colorResult = NotCalled

ExtractUnused == themeDir = [s \in Sources |-> Absent] /\ ExtractIdle

MergeIdle == mergeCall = [self |-> ColorPalette_default, other |-> ColorPalette_default,
                          result |-> NotCalled]

NextColor ==
    \/ ColorNew /\ UNCHANGED <<watchVars, extractVars, linkVars, mergeCall, genVars, targetVars, lastAct>>
    \/ ColorFromHex /\ UNCHANGED <<watchVars, extractVars, linkVars, mergeCall, genVars, targetVars, lastAct>>
    \/ ColorFromHexNoHash /\ UNCHANGED <<watchVars, extractVars, linkVars, mergeCall, genVars, targetVars, lastAct>>

InitSpecColor == InitColor /\ ExtractUnused /\ LinkIdle /\ MergeIdle /\ GenIdle /\ TargetIdle /\ ActIdle /\ WatchIdle

SpecColor == InitSpecColor /\ [][NextColor]_vars

NextMerge == Merge /\ UNCHANGED <<watchVars, colorVars, extractVars, linkVars, genVars, targetVars, lastAct>>

InitSpecMerge == InitMerge /\ ColorIdle /\ ExtractUnused /\ LinkIdle /\ GenIdle /\ TargetIdle /\ ActIdle /\ WatchIdle

SpecMerge == InitSpecMerge /\ [][NextMerge]_vars

NextExtract ==
    \/ ExtractCall /\ UNCHANGED <<watchVars, colorVars, linkVars, mergeCall, genVars, targetVars, lastAct>>
    \/ ExtractSkipMissing /\ UNCHANGED <<watchVars, colorVars, linkVars, mergeCall, genVars, targetVars, lastAct>>
    \/ ExtractParsed /\ UNCHANGED <<watchVars, colorVars, linkVars, mergeCall, genVars, targetVars, lastAct>>
    \/ ExtractParseFailed /\ UNCHANGED <<watchVars, colorVars, linkVars, mergeCall, genVars, targetVars, lastAct>>
    \/ ExtractBail /\ UNCHANGED <<watchVars, colorVars, linkVars, mergeCall, genVars, targetVars, lastAct>>
    \/ ExtractReturn /\ UNCHANGED <<watchVars, colorVars, linkVars, mergeCall, genVars, targetVars, lastAct>>

InitSpecExtract == InitExtract /\ ColorIdle /\ LinkIdle /\ MergeIdle /\ GenIdle /\ TargetIdle /\ ActIdle /\ WatchIdle

SpecExtract == InitSpecExtract /\ [][NextExtract]_vars

NextLink ==
    \/ \E p \in Programs, f \in SourceFiles, fail \in FsFaults :
          CreateSymlink(p, f, fail)
            /\ UNCHANGED <<watchVars, colorVars, extractVars, mergeCall, genVars, targetVars, lastAct>>
    \/ \E p \in Programs, fail \in FsFaults :
          RemoveSymlink(p, fail)
            /\ UNCHANGED <<watchVars, colorVars, extractVars, mergeCall, genVars, targetVars, lastAct>>
    \/ Tick /\ UNCHANGED <<watchVars, colorVars, extractVars, mergeCall, genVars, targetVars, lastAct>>

InitSpecLink == InitLink /\ ColorIdle /\ ExtractUnused /\ MergeIdle /\ GenIdle /\ TargetIdle /\ ActIdle /\ WatchIdle

SpecLink == InitSpecLink /\ [][NextLink]_vars

NextActivate ==
    \/ \E t \in ThemeNames, fail \in ActFaults :
          ActivateVencord(t, fail)
            /\ UNCHANGED <<watchVars, colorVars, extractVars, linkVars, mergeCall, genVars>>
    \/ \E x \in SpicetifyInputs, t \in SpicetifyThemes :
          ActivateSpicetify(x, t)
            /\ UNCHANGED <<watchVars, colorVars, extractVars, linkVars, mergeCall, genVars>>
    \/ \E l \in DetectedLists, fail \in ActFaults, x \in SpicetifyRuns :
          ActivateAll(l, fail, x)
            /\ UNCHANGED <<watchVars, colorVars, extractVars, linkVars, mergeCall, genVars>>
    \/ \E fail \in ActFaults :
          DeactivateVencord(fail)
            /\ UNCHANGED <<watchVars, colorVars, extractVars, linkVars, mergeCall, genVars>>

InitSpecActivate ==
    InitActivate /\ ColorIdle /\ ExtractUnused /\ LinkIdle /\ MergeIdle /\ GenIdle /\ WatchIdle

SpecActivate == InitSpecActivate /\ [][NextActivate]_vars

NextGenerate ==
    \/ \E m \in {"missing", "regenerate"}, t \in Themes :
          GenStart(m, t)
            /\ UNCHANGED <<watchVars, colorVars, extractVars, linkVars, mergeCall, targetVars, lastAct>>
    \/ \E m \in {"missing", "regenerate"}, t \in Themes :
          GenNoColorSource(m, t)
            /\ UNCHANGED <<watchVars, colorVars, extractVars, linkVars, mergeCall, targetVars, lastAct>>
    \/ \E fail \in GenFaults :
          GenerateStep(fail)
            /\ UNCHANGED <<watchVars, colorVars, extractVars, linkVars, mergeCall, targetVars, lastAct>>
    \/ GenerateReturn
          /\ UNCHANGED <<watchVars, colorVars, extractVars, linkVars, mergeCall, targetVars, lastAct>>

InitSpecGenerate ==
    InitGenerate /\ ColorIdle /\ ExtractUnused /\ LinkIdle /\ MergeIdle /\ TargetIdle
      /\ ActIdle /\ WatchIdle

SpecGenerate == InitSpecGenerate /\ [][NextGenerate]_vars

Rest == <<colorVars, extractVars, mergeCall, lastAct, watchVars>>

NextDeploy ==
    \/ \E m \in {"missing", "regenerate", "deploy"}, t \in Themes :
          MayStart /\ GenStart(m, t) /\ UNCHANGED <<Rest, linkVars, targetVars>>
    \/ \E m \in {"missing", "regenerate", "deploy"}, t \in Themes :
          MayStart /\ GenNoColorSource(m, t) /\ UNCHANGED <<Rest, linkVars, targetVars>>
    \/ GenerateStep("none") /\ UNCHANGED <<Rest, linkVars, targetVars>>
    \/ GenerateReturn /\ UNCHANGED <<Rest, linkVars, targetVars>>
    \/ DeploySkip /\ UNCHANGED Rest
    \/ DeployUnknown /\ UNCHANGED Rest
    \/ \E fail \in OmarcordFaults : DeployOmarcord(fail) /\ UNCHANGED Rest
    \/ \E base \in BaseFiles, fail \in OmarchifyFaults, x \in DeployRuns :
          DeployOmarchify(base, fail, x) /\ UNCHANGED Rest
    \/ DeployReturn /\ UNCHANGED Rest

InitSpecDeploy ==
    InitDeploy /\ ColorIdle /\ ExtractUnused /\ LinkIdle /\ MergeIdle /\ ActIdle /\ WatchIdle

SpecDeploy == InitSpecDeploy /\ [][NextDeploy]_vars

NextRedeploy ==
    \/ \E t \in Themes, env \in RedeployEnvs :
          GenerateAndDeploy(t, env) /\ UNCHANGED <<colorVars, extractVars, mergeCall, lastAct>>
    \/ Tick /\ UNCHANGED <<colorVars, extractVars, mergeCall, genVars, targetVars, lastAct,
                            watchVars>>

InitSpecRedeploy == InitRedeploy /\ ColorIdle /\ ExtractUnused /\ MergeIdle /\ ActIdle

SpecRedeploy == InitSpecRedeploy /\ [][NextRedeploy]_vars

watchOther == <<colorVars, extractVars, mergeCall, lastAct>>

NextWatch ==
    \/ Watch /\ UNCHANGED watchOther
    \/ RunOnce /\ UNCHANGED watchOther
    \/ ReadLink /\ UNCHANGED watchOther
    \/ \E env \in WatchEnvs : Deploy(env) /\ UNCHANGED watchOther
    \/ \E ok \in BOOLEAN : SetUp(ok) /\ UNCHANGED watchOther
    \/ Receive /\ UNCHANGED watchOther
    \/ ReceiveError /\ UNCHANGED watchOther
    \/ \E events \in RepointEvents : Repoint(events) /\ UNCHANGED watchOther
    \/ Touch(Event("Create", watch_dir \o <<"t1">>)) /\ UNCHANGED watchOther
    \/ ChannelLost /\ UNCHANGED watchOther

InitSpecWatch ==
    InitWatch /\ ColorIdle /\ ExtractUnused /\ LinkIdle /\ MergeIdle /\ ActIdle

SpecWatch == InitSpecWatch /\ [][NextWatch]_vars

\* the steps of the watcher itself: watch is one task, which goes on to its
\* next statement unless it has returned or panicked
WatchStep ==
    /\ \/ ReadLink
       \/ \E env \in WatchEnvs : Deploy(env)
       \/ \E ok \in BOOLEAN : SetUp(ok)
       \/ Receive
       \/ ReceiveError
    /\ UNCHANGED watchOther

\* the watcher over valid theme directories and a dangling link
InitSpecWatchLive ==
    /\ InitSpecWatch
    /\ themes["t1"].sources = LightDir
    /\ settings \in {Absent, SettingsDoc(JArray(<<>>))}
    /\ watchLink \in {Symlink(AbsTarget("t1")), Symlink(RelTarget("gone"))}
    /\ \A i \in DOMAIN pending : LET link == pending[i]
                                   IN  link.kind = "symlink" /\ dir_exists(resolve(link.target))

SpecWatchLive == InitSpecWatchLive /\ [][NextWatch]_vars /\ WF_vars(WatchStep)

(***************************************************************************)
(* Properties                                                              *)
(***************************************************************************)
Min(S) == CHOOSE x \in S : \A y \in S : x <= y

\* C1 (SpecMerge): after a.merge(b) every fixed slot and custom key set in a
\* keeps a's value, every one empty in a and set in b holds b's value, and one
\* empty in both stays empty.
C1_MergeKeepsAndFills ==
    mergeCall.result.status = "ok" =>
        LET a == mergeCall.self
            b == mergeCall.other
            r == mergeCall.result.value
        IN  /\ \A f \in FixedSlots :
                 /\ a.fixed[f] # NoColor => r.fixed[f] = a.fixed[f]
                 /\ a.fixed[f] = NoColor /\ b.fixed[f] # NoColor => r.fixed[f] = b.fixed[f]
                 /\ a.fixed[f] = NoColor /\ b.fixed[f] = NoColor => r.fixed[f] = NoColor
            /\ DOMAIN r.custom = DOMAIN a.custom \cup DOMAIN b.custom
            /\ \A k \in DOMAIN a.custom : r.custom[k] = a.custom[k]
            /\ \A k \in DOMAIN b.custom \ DOMAIN a.custom : r.custom[k] = b.custom[k]

\* a merge in which both palettes set background to different colours, only
\* the other palette sets foreground and only the other palette has "title"
C1_Witness ==
    /\ mergeCall.result.status = "ok"
    /\ mergeCall.self.fixed["background"] # NoColor
    /\ mergeCall.other.fixed["background"] # NoColor
    /\ mergeCall.self.fixed["background"] # mergeCall.other.fixed["background"]
    /\ mergeCall.self.fixed["foreground"] = NoColor
    /\ mergeCall.other.fixed["foreground"] # NoColor
    /\ DOMAIN mergeCall.self.custom = {}
    /\ DOMAIN mergeCall.other.custom = {"title"}

\* the sources of the priority list whose file exists and parses
Tried == 1..Len(priority)
OkAt(i) == themeDir[priority[i]].kind = "ok"
PaletteAt(i) == themeDir[priority[i]].palette
FixedSetters(f) == {i \in Tried : OkAt(i) /\ PaletteAt(i).fixed[f] # NoColor}
CustomSetters(k) == {i \in Tried : OkAt(i) /\ k \in DOMAIN PaletteAt(i).custom}
Returned == exPc = "done" /\ exResult.status = "ok"

C3_NoColorSourceIff ==
    exPc = "done" =>
        /\ exResult.status \in {"ok", "err"}
        /\ exResult.status = "err" <=> ~ \E i \in Tried : OkAt(i)
        /\ exResult.status = "err" => exResult.value = "NoColorSource"

\* the call failed although a file of the priority list is present (malformed)
C3_Witness ==
    /\ exPc = "done"
    /\ exResult.status = "err"
    /\ \E i \in Tried : themeDir[priority[i]].kind = "malformed"

\* C4 (SpecExtract): a returned palette has background and foreground set;
\* #ffffff / #000000 when no parsed source sets them, a source's value
\* otherwise.
C4_BackgroundForegroundPresent ==
    Returned =>
        LET r == exResult.value.palette
        IN  /\ r.fixed["background"] # NoColor
            /\ r.fixed["foreground"] # NoColor
            /\ FixedSetters("background") = {} =>
                 r.fixed["background"] = <<"#","f","f","f","f","f","f">>
            /\ FixedSetters("foreground") = {} =>
                 r.fixed["foreground"] = <<"#","0","0","0","0","0","0">>
            /\ FixedSetters("background") # {} =>
                 r.fixed["background"]
                   = PaletteAt(Min(FixedSetters("background"))).fixed["background"]
            /\ FixedSetters("foreground") # {} =>
                 r.fixed["foreground"]
                   = PaletteAt(Min(FixedSetters("foreground"))).fixed["foreground"]

\* a source supplied the foreground and none the background
C4_Witness ==
    /\ Returned
    /\ FixedSetters("background") = {}
    /\ FixedSetters("foreground") # {}
    /\ exResult.value.palette.fixed["background"] = <<"#","f","f","f","f","f","f">>
    /\ exResult.value.palette.fixed["foreground"] # <<"#","0","0","0","0","0","0">>

\* C5 (SpecExtract): the primary source is the first source of the priority
\* list that exists and parses; an absent or unparsable source is stepped
\* over leaving palette and primary as they were, and the loop goes on to the
\* end of the list.
C5_PrimaryState ==
    exPc \in {"loop", "done"} =>
        LET oks == {i \in 1..(exIdx - 1) : OkAt(i)}
        IN  /\ primary_source = IF oks = {} THEN None ELSE priority[Min(oks)]
            /\ exPc = "done" => exIdx = Len(priority) + 1
            /\ Returned => exResult.value.source = primary_source

C5_SkipStep ==
    (exPc = "loop" /\ exIdx <= Len(priority) /\ ~ OkAt(exIdx)) =>
        /\ combined_palette' = combined_palette
        /\ primary_source' = primary_source
        /\ exPc' = "loop"
        /\ exIdx' = exIdx + 1

C5_PrimaryIsFirstParsed == [] C5_PrimaryState /\ [][C5_SkipStep]_vars

\* a malformed and an absent source precede the one that becomes primary
C5_Witness ==
    /\ Returned
    /\ Len(priority) = 3
    /\ themeDir[priority[1]].kind = "malformed"
    /\ themeDir[priority[2]].kind = "absent"
    /\ OkAt(3)
    /\ exResult.value.source = priority[3]

\* the input without one optional leading mark
StripOneHash(str) == IF str # <<>> /\ Head(str) = "#" THEN Tail(str) ELSE str
AllHex(str) == \A i \in 1..Len(str) : str[i] \in HexDigits

\* C6 (SpecColor): for three hex digits d1 d2 d3, with or without a leading
\* '#', Color::new gives #d1d1d2d2d3d3; hex() is '#' followed by
\* hex_no_hash(), and Color::new of either accessor gives the same Color.
C6_ThreeDigitsExpandAndRoundTrip ==
    LET d == StripOneHash(colorInput)
    IN  (colorResult.status # "none" /\ Len(d) = 3 /\ AllHex(d)) =>
          /\ colorResult = Ok(<<"#", d[1], d[1], d[2], d[2], d[3], d[3]>>)
          /\ hex(colorResult.value) = <<"#">> \o hex_no_hash(colorResult.value)
          /\ Color_new(hex(colorResult.value)) = colorResult
          /\ Color_new(hex_no_hash(colorResult.value)) = colorResult

C6_Witness ==
    /\ colorInput = <<"#", "a", "F", "a">>
    /\ colorResult = Ok(<<"#", "a", "a", "F", "F", "a", "a">>)

\* C7 (SpecColor): Color::new constructs a Color only from exactly 3 or
\* exactly 6 hex digits with at most one leading '#'.
C7_RejectsEverythingElse ==
    colorResult.status = "ok" =>
        LET d == StripOneHash(colorInput)
        IN  Len(d) \in {3, 6} /\ AllHex(d)

LastProgram == lastCall.program
Called == lastCall.outcome # None

\* C8 (SpecLink): a create_symlink that repeats the successful call before it
\* succeeds too and leaves destination, link target and backup area as the
\* first call left them.
C8_CreateSymlinkIdempotent ==
    lastCall.repeat =>
        /\ lastCall.outcome = "ok"
        /\ dest = lastCall.before.dest
        /\ backups = lastCall.before.backups

\* the repeated call follows one that replaced a regular file and backed it up
C8_Witness ==
    /\ lastCall.repeat
    /\ lastCall.outcome = "ok"
    /\ backups # EmptyMap
    /\ dest[LastProgram] = Symlink(SourcePath(lastCall.file))

\* C9 (SpecLink): after a successful create_symlink the destination is a
\* symbolic link to the declared source path, whatever was there before.
C9_SuccessMeansLinkToSource ==
    (Called /\ lastCall.outcome = "ok") =>
        dest[LastProgram] = Symlink(SourcePath(lastCall.file))

\* a link that pointed at another existing source was replaced
C9_Witness ==
    /\ Called
    /\ lastCall.outcome = "ok"
    /\ is_symlink(lastCall.before.dest[LastProgram])
    /\ lastCall.before.dest[LastProgram].target # SourcePath(lastCall.file)
    /\ node_exists(generated, lastCall.before.dest[LastProgram])
    /\ dest[LastProgram] = Symlink(SourcePath(lastCall.file))

\* C10 (SpecLink): create_symlink on a regular file or directory.  With
\* backups on, the original is gone from the destination only if the backup
\* of this call holds it, a successful call ends with the link, and a failed
\* backup leaves the original and fails the call.  With backups off, a
\* successful call ends with the link and the backup area is untouched.
C10_BackupBeforeRemoval ==
    LET old  == lastCall.before.dest[LastProgram]
        name == BackupName(lastCall.at)
        kept == /\ name \in DOMAIN backups
                /\ backups[name].kind = old.kind
                /\ backups[name].content = old.content
    IN  (Called /\ lastCall.outcome # "nosource" /\ old.kind \in {"file", "dir"}) =>
          /\ lastCall.outcome = "ok" =>
               dest[LastProgram] = Symlink(SourcePath(lastCall.file))
          /\ lastCall.fail = "none" => lastCall.outcome = "ok" \/ create_backups
          /\ create_backups =>
               /\ dest[LastProgram] # old => kept
               /\ lastCall.outcome = "ok" => kept
               /\ ~ kept => lastCall.outcome = "err" /\ dest[LastProgram] = old
               /\ lastCall.fail = "backup" =>
                    /\ lastCall.outcome = "err"
                    /\ dest[LastProgram] = old
                    /\ backups = lastCall.before.backups
          /\ ~ create_backups => backups = lastCall.before.backups

\* a regular file was backed up and replaced by the link
C10_Witness ==
    /\ Called
    /\ create_backups
    /\ lastCall.outcome = "ok"
    /\ lastCall.before.dest[LastProgram] = RegularFile(OriginalContent(LastProgram))
    /\ BackupName(lastCall.at) \in DOMAIN backups
    /\ backups[BackupName(lastCall.at)] = RegularFile(OriginalContent(LastProgram))
    /\ dest[LastProgram] = Symlink(SourcePath(lastCall.file))

\* C11 (SpecLink): remove_symlink never deletes a regular file or directory.
\* With nothing at the destination it succeeds and changes nothing; a symbolic
\* link, broken or not, is removed; a regular file or directory is left as it
\* was; nothing else in the file system changes.
C11_RemoveOnlyLinks ==
    lastRemove.outcome # None =>
        LET p   == lastRemove.program
            old == lastRemove.before.dest[p]
        IN  /\ old.kind = "none" => lastRemove.outcome = "ok" /\ dest[p] = old
            /\ old.kind \in {"file", "dir"} =>
                 lastRemove.outcome = "notlink" /\ dest[p] = old
            /\ old.kind = "symlink" =>
                 \/ lastRemove.outcome = "ok" /\ dest[p] = NoNode
                 \/ lastRemove.outcome = "err" /\ dest[p] = old
            /\ dest[p] # old => old.kind = "symlink"
            /\ \A q \in Programs \ {p} : dest[q] = lastRemove.before.dest[q]
            /\ backups = lastRemove.before.backups

\* one program's directory was left in place and the other program's broken
\* link is still there to be removed
C11_Witness ==
    /\ lastRemove.outcome = "notlink"
    /\ dest[lastRemove.program] = Directory(OriginalContent(lastRemove.program))
    /\ \E q \in Programs : dest[q] = Symlink(Elsewhere)

\* a step of the loop of a run in the given mode: one more outcome is pushed
LoopStep(mode) ==
    /\ genPc = "loop"
    /\ genMode = mode
    /\ Len(results') = Len(results) + 1

\* the content the current palette renders to for a program
FreshContent(program) == Rendered(full_template_name(program.template), genPalette)

\* the destination of a program in the theme directory of the run
Destination(program) == themes[genTheme].files[program.output_file]

\* C12: in generate-missing mode, a target whose destination exists gets a
\* successful outcome with the message "File already exists (skipped)" and no
\* file of any theme directory changes; a target whose destination does not
\* exist is rendered and written: its outcome is "Generated successfully" and
\* the destination holds the rendering of the current palette, unless the
\* rendering or the write failed, and then the outcome is a failure and the
\* destination is still absent.
C12_SkipExisting ==
    [][LoopStep("missing") =>
         LET program == CurrentProgram
             out == results'[Len(results')]
         IN  /\ out.program = program.name
             /\ out.output_file = ThemePath(genTheme, program.output_file)
             /\ path_exists(Destination(program)) =>
                   /\ out.success
                   /\ out.message = "File already exists (skipped)"
                   /\ themes' = themes
                   /\ genLog' = genLog
             /\ ~ path_exists(Destination(program)) =>
                   \/ /\ out.success
                      /\ out.message = "Generated successfully"
                      /\ themes' = [themes EXCEPT
                            ![genTheme].files[program.output_file] =
                                RegularFile(FreshContent(program))]
                   \/ /\ ~ out.success
                      /\ themes' = themes]_vars

\* a generate-missing run has skipped the old file of one target, which is
\* still there, and has written the missing file of another
C12_Witness ==
    /\ genMode = "missing"
    /\ genPc = "done"
    /\ \E i, j \in DOMAIN results :
         /\ results[i].message = "File already exists (skipped)"
         /\ \E f \in OutputFiles :
              /\ results[i].output_file = ThemePath(genTheme, f)
              /\ themes[genTheme].files[f] = OldFile
         /\ results[j].message = "Generated successfully"
         /\ \E f \in OutputFiles :
              /\ results[j].output_file = ThemePath(genTheme, f)
              /\ themes[genTheme].files[f].kind = "file"
              /\ themes[genTheme].files[f] # OldFile

\* C13: in regenerate-all mode, whenever the outcome of a target reports
\* success, the destination of the target holds the rendering of the current
\* palette, never what was there before the call.
C13_RegenerateIsFresh ==
    [][LoopStep("regenerate") =>
         LET program == CurrentProgram
             out == results'[Len(results')]
         IN  out.success =>
               themes'[genTheme].files[program.output_file] =
                   RegularFile(FreshContent(program))]_vars

\* how often a name is in a list
Count(items, name) == Cardinality({i \in DOMAIN items : items[i] = name})

\* the enabledThemes list of a settings file, empty when there is none
EnabledThemes(file) ==
    IF file.kind = "json" /\ file.root.type = "object"
         /\ "enabledThemes" \in DOMAIN file.root.fields
         /\ file.root.fields["enabledThemes"].type = "array"
      THEN file.root.fields["enabledThemes"].items
      ELSE <<>>

\* the keys of a settings document other than enabledThemes
OtherKeys(file) ==
    IF file.kind = "json" /\ file.root.type = "object"
      THEN DOMAIN file.root.fields \ {"enabledThemes"}
      ELSE {}

\* C18: after a successful activation through the settings file, the file is
\* a document whose enabledThemes list holds the theme name; it holds it once
\* if it held it at most once before; the list is the old list, or the old
\* list with the name appended; every other key keeps its value; a successful
\* activation that follows a successful activation of the same theme leaves
\* the file as it was; and an absent file is created with the theme as its
\* only enabled theme.
C18_NoDuplicateTheme ==
    (lastAct.op = "vencord" /\ lastAct.outcome = "ok") =>
        LET old == lastAct.before
            t   == lastAct.theme
        IN  /\ settings.kind = "json"
            /\ settings.root.type = "object"
            /\ "enabledThemes" \in DOMAIN settings.root.fields
            /\ settings.root.fields["enabledThemes"].type = "array"
            /\ Count(EnabledThemes(settings), t) >= 1
            /\ Count(EnabledThemes(old), t) <= 1 => Count(EnabledThemes(settings), t) = 1
            /\ \/ EnabledThemes(settings) = EnabledThemes(old)
               \/ EnabledThemes(settings) = Append(EnabledThemes(old), t)
            /\ old.kind # "absent" =>
                  /\ OtherKeys(settings) = OtherKeys(old)
                  /\ \A k \in OtherKeys(old) :
                        settings.root.fields[k] = old.root.fields[k]
            /\ old.kind = "absent" => EnabledThemes(settings) = <<t>>
            /\ lastAct.repeat => settings = old

\* the theme was activated twice in a row in a file that lists another theme
\* and has another key
C18_Witness ==
    /\ lastAct.op = "vencord"
    /\ lastAct.outcome = "ok"
    /\ lastAct.repeat
    /\ lastAct.theme = "omarcord.theme.css"
    /\ EnabledThemes(settings) = <<"other-theme.css", "omarcord.theme.css">>
    /\ "plugins" \in OtherKeys(settings)

\* the first n elements of a sequence
Prefix(seq, n) == SubSeq(seq, 1, n)

\* the positions of the commands that did not exit with success
NotSucceeded(outs) == {i \in DOMAIN outs : outs[i] # "success"}

\* C20: an activation through the CLI issues set-theme, set-color-scheme and
\* apply in that order; the first command that exits with failure ends the
\* sequence, and the outcome is a failure with the message and the error
\* output of that command; when all three succeed the outcome is a success;
\* without the CLI no command is issued and the outcome is a failure, not an
\* error.
C20_CommandOrder ==
    lastAct.op = "spicetify" =>
        LET scheme == (CHOOSE p \in SpicetifyThemes : p[1] = lastAct.theme)[2]
            cmds   == <<SetTheme(lastAct.theme), SetScheme(scheme), Apply>>
            outs   == lastAct.outs
        IN  /\ \E n \in 0..3 : commands = Prefix(cmds, n)
            /\ ~ lastAct.cli =>
                  /\ commands = <<>>
                  /\ lastAct.outcome = "failed"
                  /\ lastAct.message = Message("CLI not available - please activate manually")
            /\ (lastAct.cli /\ NotSucceeded(outs) = {}) =>
                  /\ commands = cmds
                  /\ lastAct.outcome = "ok"
            /\ (lastAct.cli /\ NotSucceeded(outs) # {}) =>
                  LET i == Min(NotSucceeded(outs))
                  IN  outs[i] = "failure" =>
                        /\ commands = Prefix(cmds, i)
                        /\ lastAct.outcome = "failed"
                        /\ lastAct.message =
                              [text |-> <<"Failed to set theme",
                                          "Failed to set color scheme",
                                          "Failed to apply theme">>[i],
                               error |-> Stderr(i)]

\* set-theme succeeded, set-color-scheme exited with failure, and apply, which
\* would have succeeded, was not issued
C20_Witness ==
    /\ lastAct.op = "spicetify"
    /\ lastAct.cli
    /\ lastAct.outs = <<"success", "failure", "success">>
    /\ lastAct.outcome = "failed"
    /\ commands = <<SetTheme("text"), SetScheme("Omarchify")>>

\* the run has no colour source: extract_colors fails on its theme directory
NoColorSource(theme) ==
    extract_colors(themes[theme].sources,
                   parse_color_priority(config.color_priority)).status = "err"

\* every file a run can write, link, back up or delete
Artifacts == <<themes, generatedFile, vencordFile, spicetifyLink, settings, backups>>

\* C16: a run on a theme directory without a colour source, in any of the
\* three modes, ends at once with an error, has processed no program and has
\* performed no file system operation and no activation.
C16_NoColorNoRun ==
    (genPc # "idle" /\ NoColorSource(genTheme)) =>
        /\ genPc = "done"
        /\ genResult.status = "err"
        /\ genAbort = "extract"
        /\ attempted = <<>>
        /\ results = <<>>
        /\ genLog = <<>>

\* C16, the frame: the step that starts such a run changes no theme file, no
\* generated file, no target file or link, no settings document and no
\* backup, and issues no command.
C16_NoArtifact ==
    [][(genPc' = "done" /\ genAbort' = "extract") =>
          UNCHANGED <<Artifacts, commands>>]_vars

C16_NoArtifactOnNoColorSource == []C16_NoColorNoRun /\ C16_NoArtifact

\* a deployment of t2 wrote the Vencord theme, and the run that followed, on
\* a theme directory without colour source, failed and left it there
C16_Witness ==
    /\ genPc = "done"
    /\ genAbort = "extract"
    /\ genTheme = "t1"
    /\ ~ firstRun
    /\ vencordFile = RegularFile(Rendered(<<"omarcord", "theme", "css">>,
                                          extracted("t2").value.palette))

\* a step of generate_and_deploy in which deploy_omarchify returned Ok(())
OmarchifyDeployed ==
    /\ DeployLoop
    /\ CurrentProgram.name = "omarchify"
    /\ attempted' = Append(attempted, "omarchify")
    /\ genPc' = "loop"

\* whether a node of a theme directory was written by deploy_omarchify
IsCombined(node) == node.kind = "file" /\ "base" \in DOMAIN node.content

\* C17: with auto_symlink, when deploy_omarchify succeeds there is a symbolic
\* link at the colour file of the Spicetify theme and it points to the output
\* file under the watch path, whatever theme directory was deployed; and no
\* step of a run ever leaves a link there that points anywhere else.
C17_LinkToWatchPath ==
    [][/\ (OmarchifyDeployed /\ config.auto_symlink) =>
             spicetifyLink' = Symlink(WatchFile(CurrentProgram.output_file))
       /\ spicetifyLink' # spicetifyLink =>
             spicetifyLink' \in {NoNode, Symlink(WatchFile("color.ini"))}]_vars

\* t1 was deployed, then t2: both theme directories hold their color.ini and
\* the link points to the watch path
C17_Witness ==
    /\ genPc = "done"
    /\ genMode = "deploy"
    /\ genResult.status = "ok"
    /\ genTheme = "t2"
    /\ config.auto_symlink
    /\ IsCombined(themes["t1"].files["color.ini"])
    /\ IsCombined(themes["t2"].files["color.ini"])
    /\ spicetifyLink = Symlink(WatchFile("color.ini"))

\* the run has gone through every enabled program
AllProcessed == genIdx > Len(enabled_programs(config))

\* C14: in each of the three modes, a run that got past the extraction is
\* never ended by a target's template, render, read, write or link failure:
\* when it ends it has gone through every enabled program and returns Ok.
C14_FailureIsolated ==
    (genPc = "done" /\ genAbort \notin {"extract", "activate", "panic"}) =>
        /\ AllProcessed
        /\ genResult.status = "ok"

\* C15: a run that got past the extraction and returned holds one outcome
\* record for each program it attempted, in the order of the attempts, with
\* the program's name and the path of its artifact.
C15_OneOutcomePerTarget ==
    (genPc = "done" /\ genAbort # "extract") =>
        /\ Len(results) = Len(attempted)
        /\ \A i \in DOMAIN results :
              /\ results[i].program = attempted[i]
              /\ \E f \in OutputFiles : results[i].output_file = ThemePath(genTheme, f)

\* C19: no run is ended by a failure of an activation: neither the Err of the
\* settings file or of a command that cannot be run, nor a panic, leaves
\* generate_and_deploy.
C19_ActivationNeverPropagates ==
    genPc = "done" => genAbort \notin {"activate", "panic"}

\* C21: when a deactivation follows a successful activation of a theme in a
\* settings document that did not list the theme, and succeeds, the
\* enabledThemes list is again what it was before the activation.
C21_DeactivateInvertsActivate ==
    (/\ lastAct.op = "deactivate"
     /\ lastAct.repeat
     /\ lastAct.outcome = "ok"
     /\ Count(EnabledThemes(lastAct.before), lastAct.theme) = 0) =>
        EnabledThemes(settings) = EnabledThemes(lastAct.before)

\* C29: no step loses a backup: every entry of the backup area is still
\* there after the step, with the content it had.
C29_BackupsKept ==
    [][\A name \in DOMAIN backups :
          /\ name \in DOMAIN backups'
          /\ backups'[name] = backups[name]]_vars

\* the files at the targets' locations, in the theme directories and in the
\* generated-themes directory; the backup area and the command log are not
\* among them
Targets(fs) == <<fs.themes, fs.generated, fs.vencord, fs.link, fs.settings>>

\* the second call follows the first for the same theme directory and meets
\* the same installed programs, base file and faults
Repeated ==
    /\ Len(runs) = 2
    /\ runs[2].theme = runs[1].theme
    /\ runs[2].env = runs[1].env

Replaced(before, after) == before.kind = "file" /\ after # before

\* the call put a copy of the node into the backup area
BackedUp(run, node) ==
    \E name \in DOMAIN run.after.backups :
        /\ run.after.backups[name] = node
        /\ name \in DOMAIN run.before.backups => run.before.backups[name] # node

\* the Vencord theme file is not replaced without a backup
VencordKept(run) ==
    Replaced(run.before.vencord, run.after.vencord) => BackedUp(run, run.before.vencord)

\* the file at Themes/text/color.ini is not removed without a backup
SpicetifyKept(run) ==
    Replaced(run.before.link, run.after.link) => BackedUp(run, run.before.link)

\* C28: with backups enabled, a call of generate_and_deploy replaces or
\* removes a regular file that stood at a target's location only if it has
\* put a copy of that file into the backup area.
C28_BackupBeforeOverwrite ==
    config.create_backups =>
        \A i \in DOMAIN runs : VencordKept(runs[i]) /\ SpicetifyKept(runs[i])

\* watch has ended: it has returned or a panic has unwound through it
WatchEnded == current.mode = "watch" /\ watchPc \in {"returned", "crashed"}

\* watch returned the error of setting the watcher up, before its loop
SetUpFailed == watchPc = "returned" /\ watchResult.status = "err"

\* C23: whatever a handler run does, the initial one included, watch goes on;
\* once the watcher is set up, watch ends only when the event channel is lost.
C23_OnlyChannelLossEndsLoop ==
    (WatchEnded /\ ~ SetUpFailed) => channel = "lost"

\* the number of events the loop has taken from the channel
Received == Len(emitted) - Len(queue)

\* the relevant ones among the first n events sent
RelevantUpTo(n) == {i \in 1..n : is_relevant_event(emitted[i])}

\* the events that have had their handler run
Causes == {handled[i].cause : i \in DOMAIN handled} \ {0}

\* the channel holds the events not yet taken, in arrival order; the handler
\* runs follow the order of their events, one run for an event; between two
\* handler runs every relevant event taken so far has had its run, and
\* during a run every one before the event of that run
HandledInOrder ==
    /\ queue = SubSeq(emitted, Received + 1, Len(emitted))
    /\ \A i, j \in DOMAIN handled : i < j => handled[i].cause < handled[j].cause
    /\ watchPc \in {"recv", "returned"} => Causes = RelevantUpTo(Received)
    /\ (watchPc \in {"settle", "handling"} /\ current.cause > 0) =>
          /\ current.cause = Received
          /\ Causes = RelevantUpTo(Received - 1)

C24_Handled ==
    /\ watchPc = "recv"
    /\ queue = <<>>
    /\ \E i, j \in DOMAIN handled :
          /\ i < j
          /\ handled[i].cause > 0
          /\ handled[i].deployed
          /\ handled[j].deployed

Startup ==
    /\ current.mode = "watch"
    /\ watchPc \in {"initial", "setup"} \/ (watchPc = "handling" /\ current.cause = 0)

\* the handler runs of the startup
InitialRuns == {i \in DOMAIN handled : handled[i].cause = 0}

\* during the startup no event has been taken and no handler run has been
\* caused by one; after it, the handler has run once without an event if
\* the watch path existed when watch was called, and not at all otherwise;
\* every later handler run follows a creation, modification or removal
StartupOrder ==
    current.mode = "watch" =>
        /\ Startup => (Received = 0 /\ Causes = {})
        /\ ~ (watchPc = "initial" \/ (watchPc = "handling" /\ current.cause = 0)) =>
              Cardinality(InitialRuns) = IF current.existed THEN 1 ELSE 0
        /\ \A i \in DOMAIN handled :
              handled[i].cause > 0 =>
                  /\ i > Cardinality(InitialRuns)
                  /\ emitted[handled[i].cause].kind \in {"Create", "Modify", "Remove"}

C26_NoInitialRun ==
    /\ current.mode = "watch"
    /\ ~ current.existed
    /\ watchPc = "recv"
    /\ handled # <<>>
    /\ handled[1].cause > 0

\* the directory a link target names: the target itself when it is absolute,
\* the target under the directory that holds the link when it is relative
Named(target) ==
    IF target.relative THEN parent(watch_path) \o target.path ELSE target.path

\* the handler run that a step has ended
Ended == handled'[Len(handled')]

\* C27: a handler run uses the directory that the watch link names when the
\* handler reads it, after the settle delay, resolved against the link's
\* parent when relative; it deploys that directory and no other; when the
\* directory does not exist it returns Ok, nothing is extracted, deployed or
\* written, and the loop goes on.
C27_ThemeDirFromLink ==
    [][/\ ((watchPc \in {"initial", "settle"} /\ watchPc' = "handling") =>
              /\ watchLink.kind = "symlink"
              /\ current'.theme_dir = Named(watchLink.target)
              /\ dir_exists(Named(watchLink.target)))
       /\ ((Len(handled') > Len(handled) /\ Ended.deployed) =>
              /\ watchPc = "handling"
              /\ Ended.theme_dir = current.theme_dir)
       /\ ((Len(handled') > Len(handled) /\ ~ Ended.deployed
              /\ watchLink.kind = "symlink") =>
              /\ Ended.theme_dir = Named(watchLink.target)
              /\ ~ dir_exists(Named(watchLink.target))
              /\ Ended.status = "ok"
              /\ CurrentFiles' = CurrentFiles
              /\ current.mode = "watch" => watchPc' \in {"setup", "recv"})]_vars

\* after events, one handler run has deployed the directory a relative link
\* names and another has found that the link names no directory
C27_Witness ==
    /\ watchPc = "recv"
    /\ \E i, j \in DOMAIN handled :
          /\ handled[i].cause > 0
          /\ handled[i].deployed
          /\ handled[i].theme_dir = watch_dir \o <<"t2">>
          /\ handled[j].cause > 0
          /\ ~ handled[j].deployed
          /\ handled[j].status = "ok"
          /\ handled[j].theme_dir = watch_dir \o <<"gone">>

\* the watch link names the directory of the theme
PointsAt(t) == watchLink \in {Symlink(AbsTarget(t)), Symlink(RelTarget(t))}

\* generate_and_deploy has been called for the directory of the theme, and
\* for no other directory since
LastDeployedFor(t) ==
    \E i \in DOMAIN handled :
        /\ handled[i].deployed
        /\ handled[i].theme_dir = watch_dir \o <<t>>
        /\ \A j \in DOMAIN handled :
              (j > i /\ handled[j].deployed) => handled[j].theme_dir = watch_dir \o <<t>>

\* C30: when the link of a running watch is repointed finitely often, each
\* time with a relevant event, and ends at a theme directory that exists,
\* then eventually a handler run has deployed that directory and no later run
\* deploys another one (even with the event channel never lost).
C30_Converges ==
    \A t \in Themes :
        (<>[](current.mode = "watch" /\ PointsAt(t)) /\ [](channel = "open")) =>
            <>[]LastDeployedFor(t)

\* the same, unless a handler run panics
ConvergesUnlessCrashed ==
    \A t \in Themes :
        <>[](current.mode = "watch" /\ PointsAt(t)) =>
            (<>[]LastDeployedFor(t) \/ <>(watchPc = "crashed"))

====
